---- MODULE Spec2Model ----
(***************************************************************************)
(* Model of the mini-messenger backend: the Socket.io handlers of          *)
(* backend/src/index.js (joinRoom, chatMessage, leaveRoom, disconnect),    *)
(* and the Room and Message collections they use.                          *)
(*                                                                         *)
(* Strings are sequences of one-character strings so that trim() and        *)
(* length checks are computed, not assumed.  Every await of a handler is a  *)
(* separate step, so handlers of different (and of the same) connections    *)
(* interleave exactly where the event loop lets them.                       *)
(***************************************************************************)
EXTENDS Integers, Sequences, FiniteSets, TLC

\* ---------------------------------------------------------------- bounds
\* joinRoom requests in a run.
MaxJoins == 2
\* chatMessage requests in a run.
MaxChats == 1
\* chatMessage requests in a run that starts with both sockets in a room.
MaxSends == 2
\* Largest value of the server clock (new Date()).
MaxClock == 1
\* Messages of a room already in the Message collection when a history
\* run starts.
MaxPreload == 51
\* joinRoom requests in a history run.
MaxReads == 1
\* POST /api/chat/messages requests in a run with the REST interface.
MaxPosts == 1
\* GET requests for the messages of a room in a run with the REST interface.
MaxGets == 1
\* Requests, of any kinds, in a run that has every way to the store.
MaxRequests == 2
\* POST /rooms requests in a run that creates rooms.
MaxRoomPosts == 3
\* Actions of the user in a run of the browser.
MaxActs == 3
\* joinRoom requests the server takes from the page.
MaxPageJoins == 5

\* ------------------------------------------------------- program constants
\* .limit(50) of the joinRoom history query.
HistoryLimit == 50
\* text.length > 1000 in chatMessage.
MaxTextLength == 1000
\* maxlength of the name of a Room document.
RoomNameMax == 50

\* ------------------------------------------------------------------ names
\* socket.id of the connections (each is also the name of a Socket.io room).
Sockets == {<<"1">>, <<"2">>}

\* The order in which the connections are made.
Rank(s) == IF s = <<"1">> THEN 1 ELSE 2

\* The user whose client opens socket s.
UserOf(s) == IF s = <<"1">> THEN "alice" ELSE "bob"

\* The User collection: _id and username of each document.
Users == {[id |-> "u1", username |-> "alice"], [id |-> "u2", username |-> "bob"]}

\* The _id of the document of a user name.
UserId(name) == (CHOOSE u \in Users : u.username = name).id

\* The _id a deleted account had.
DeletedUserId == "u9"

\* What the handshake carries as token: nothing, or a string that is or is
\* not a JWT, signed or not with JWT_SECRET, past its exp or not, with the
\* userId of its payload.
NoToken ==
  [present |-> FALSE, jwt |-> FALSE, signed |-> FALSE, expired |-> FALSE, userId |-> ""]
Garbage ==
  [present |-> TRUE, jwt |-> FALSE, signed |-> FALSE, expired |-> FALSE, userId |-> ""]
Token(userId, signed, expired) ==
  [present |-> TRUE, jwt |-> TRUE, signed |-> signed, expired |-> expired,
   userId |-> userId]

\* The tokens the client of socket s tries.
TokenInputs(s) ==
  {NoToken, Garbage,
   Token(UserId(UserOf(s)), FALSE, FALSE),
   Token(UserId(UserOf(s)), TRUE, TRUE),
   Token(UserId(UserOf(s)), TRUE, FALSE),
   Token(DeletedUserId, TRUE, FALSE)}

\* Names of the documents of the Room collection.
ExistingRooms == {<<"a">>, <<"b">>}

\* A document of the Room collection, and the documents the collection
\* holds from the start for a set of names.
RoomDocument(id, name) == [id |-> id, name |-> name]
Rooms(names) == {RoomDocument(<<"stored", 0>>, n) : n \in names}

\* A payload value as the handler sees it: a string or something else.
Str(v) == [str |-> TRUE, val |-> v]
NotAString == [str |-> FALSE, val |-> <<>>]

\* Room arguments of joinRoom: two rooms that exist (one needs trimming),
\* one that does not, a blank string and a value that is no string.
JoinInputs ==
  {Str(<<"a">>), Str(<<" ", "b">>), Str(<<"g">>), Str(<<" ">>), NotAString}

\* Room fields of chatMessage from socket s; its own socket id is one.
RoomInputs(s) ==
  {Str(<<"a">>), Str(<<" ", "b">>), Str(<<" ">>), NotAString, Str(s)}

\* Room arguments of leaveRoom.
LeaveInputs == {Str(<<"a">>), Str(<<" ", "b">>), Str(<<>>), NotAString}

\* Text arguments of chatMessage.
TextInputs == {Str(<<"h", "i", " ">>), Str(<<>>)}

\* A field the payload has, and a username or ts field it does not have.
Given(v) == [given |-> TRUE, val |-> v]
NoName == [given |-> FALSE, val |-> ""]
NoTs == [given |-> FALSE, val |-> 0]

\* The timestamp a client puts in a payload.
ClientTs == 0 - 7

\* Fields a client adds to the chatMessage payload beside room and text.
ExtraInputs ==
  {[username |-> u, ts |-> t] :
     u \in {NoName, Given("mallory")}, t \in {NoTs, Given(ClientTs)}}

\* ------------------------------------------------------------------ state
VARIABLES
  status,     \* socket -> "none" | "connected" | "disconnected"
  session,    \* socket -> socket.userId and socket.username
  rooms,      \* socket -> socket.rooms (the adapter's rooms of the socket id)
  roomStore,  \* the documents of the Room collection
  messages,   \* the Message collection, in the order the saves completed
  now,        \* the server clock when it was last read by new Date()
  tasks,      \* handler invocations suspended at an await
  issued,     \* kind of request -> number of requests received
  budget,     \* kind of request -> number of requests the run holds
  emitted,    \* socket -> events the last step sent to it, in order
  response,   \* the HTTP response the last step sent
  page        \* the browser of alice: localStorage, the route, the pages

vars ==
  <<status, session, rooms, roomStore, messages, now, tasks, issued, budget,
    emitted, response, page>>

\* --------------------------------------------------------- pure functions
IsSpace(c) == c = " "

\* String.prototype.trim
RECURSIVE TrimLeft(_)
TrimLeft(s) ==
  IF s # <<>> /\ IsSpace(Head(s)) THEN TrimLeft(Tail(s)) ELSE s

RECURSIVE TrimRight(_)
TrimRight(s) ==
  IF s # <<>> /\ IsSpace(s[Len(s)])
    THEN TrimRight(SubSeq(s, 1, Len(s) - 1))
    ELSE s

Trim(s) == TrimRight(TrimLeft(s))

\* !room || typeof room !== 'string' || room.trim().length === 0
InvalidString(p) == ~p.str \/ p.val = <<>> \/ Trim(p.val) = <<>>

\* Array.prototype.reverse
Reverse(s) == [i \in 1..Len(s) |-> s[Len(s) + 1 - i]]

\* .limit(n)
Limit(s, n) == IF Len(s) > n THEN SubSeq(s, 1, n) ELSE s

\* Documents matched by find({ room: roomName }).
RoomMessages(store, room) == SelectSeq(store, LAMBDA m : m.room = room)

\* One more document placed into a sequence that is in descending ts order:
\* at any place that keeps the order.
InsertByTsDesc(sorted, m) ==
  {SubSeq(sorted, 1, p - 1) \o <<m>> \o SubSeq(sorted, p, Len(sorted)) :
     p \in {q \in 1..(Len(sorted) + 1) :
              /\ q > 1 => sorted[q - 1].ts >= m.ts
              /\ q <= Len(sorted) => sorted[q].ts <= m.ts}}

\* .sort({ ts: -1 }): every order of the documents with ts descending. The
\* query names no tie-breaker, so documents with equal ts come in any order.
RECURSIVE SortPrefix(_, _)
SortPrefix(docs, k) ==
  IF k = 0 THEN {<<>>}
  ELSE UNION {InsertByTsDesc(sorted, docs[k]) : sorted \in SortPrefix(docs, k - 1)}

SortByTsDesc(docs) == SortPrefix(docs, Len(docs))

\* The history query without the reverse(): newest first.
RoomHistoryNewestFirst(store, room) ==
  {Limit(sorted, HistoryLimit) : sorted \in SortByTsDesc(RoomMessages(store, room))}

\* Message.find({ room }).sort({ ts: -1 }).limit(50).lean() then reverse():
\* the results the history query of joinRoom can produce.
RoomHistory(store, room) ==
  {Reverse(Limit(sorted, HistoryLimit)) :
     sorted \in SortByTsDesc(RoomMessages(store, room))}

\* ------------------------------------------------------------- Socket.io
Live(s) == status[s] = "connected"

\* Nothing is sent.
Quiet == [s \in Sockets |-> <<>>]

\* socket.emit(event): the packet reaches the client only while connected
\* (live); it is dropped otherwise.
Emit(em, s, ev) ==
  [em EXCEPT ![s] = Append(@, [ev EXCEPT !.live = Live(s)])]

\* io.to(room).emit(event): every connected socket that is in the room.
RoomSockets(room) == {s \in Sockets : Live(s) /\ room \in rooms[s]}

Broadcast(em, targets, ev) ==
  [s \in Sockets |->
     IF s \in targets THEN Append(em[s], [ev EXCEPT !.live = TRUE]) ELSE em[s]]

\* The kinds of request.
Requests ==
  {"joinRoom", "chatMessage", "postMessages", "getMessages", "postRooms"}

\* The identity of the k-th request of a kind; for a chatMessage it is also
\* the _id that new Message() gives the document.
ReqId(op, k) == <<op, k>>

NoMessage == [id |-> <<"", 0>>, room |-> <<>>, username |-> "", text |-> <<>>, ts |-> 0]

\* An event on its way to a client. req is the request whose handler sent it
\* and at the await the handler had reached; both only label the event.
Event(type, req, room) ==
  [type |-> type, req |-> req, at |-> "", room |-> room, message |-> "",
   username |-> "", msg |-> NoMessage, history |-> <<>>, live |-> TRUE]

\* socket.emit('error', { message })
ErrorEvent(req, at, message) ==
  [Event("error", req, <<>>) EXCEPT !.at = at, !.message = message]

\* No HTTP response is sent.
NoResponse == [code |-> 0, message |-> "", data |-> NoMessage, messages |-> <<>>]

\* ---------------------------------------------------------- authentication
\* jwt.verify(token, JWT_SECRET): the name of the error it throws, "" when
\* it returns the payload. The signature is checked before exp.
Verify(token) ==
  IF ~token.jwt \/ ~token.signed THEN "JsonWebTokenError"
  ELSE IF token.expired THEN "TokenExpiredError"
  ELSE ""

\* User.findById(decoded.userId): the documents found.
FindById(userId) == {u \in Users : u.id = userId}

\* The older handshake check, whose catch reports every error alike.
AuthErrorInvalidOnly(token, answered) ==
  IF ~token.present THEN "Authentication error: No token provided"
  ELSE IF Verify(token) # "" \/ ~answered THEN "Authentication error: Invalid token"
  ELSE IF FindById(token.userId) = {} THEN "Authentication error: User not found"
  ELSE ""

\* The message of the Error the io.use middleware passes to next(), "" when
\* it calls next() with none. answered is whether User.findById returned.
AuthError(token, answered) ==
  IF ~token.present THEN "Authentication error: No token provided"
  ELSE IF Verify(token) = "JsonWebTokenError" THEN "Authentication error: Invalid token"
  ELSE IF Verify(token) = "TokenExpiredError" THEN "Authentication error: Token expired"
  ELSE IF ~answered THEN "Authentication error: lookup failed"
  ELSE IF FindById(token.userId) = {} THEN "Authentication error: User not found"
  ELSE ""

\* No socket.userId and socket.username.
NoSession == [userId |-> "", username |-> ""]

\* An identity that keeps the id and drops the name.
IdentityWithoutName(user) == [userId |-> user.id, username |-> ""]

\* socket.userId = user._id.toString(); socket.username = user.username
Identity(user) == [userId |-> user.id, username |-> user.username]

\* ------------------------------------------------------------ the browser
\* useState('general'): the room the Chat page starts in.
General == <<"g", "e", "n", "e", "r", "a", "l">>

\* The socket that createSocket() of the page opens, as the server knows it.
NewSocket == <<"1">>

\* The browser before anything is loaded: nothing in localStorage, no page.
\*   token        localStorage.getItem('token')
\*   path         the route shown, "" while nothing is loaded
\*   loginError   the error state of the Login page
\*   mounted      the Chat component is mounted
\*   socket       the socket of the Chat page: "none", "opening" until the
\*                server answers its handshake, then "open" or "refused",
\*                and "closed" once the page has disconnected it
\*   connected, currentRoom, list, error
\*                the states connected, currentRoom, messages and error of Chat
\*   handlerRoom  the currentRoom that the socket handlers registered at
\*                mount hold in their closure
\*   timer        the setTimeout of the connect_error handler is pending
\*   out          the events the socket has emitted and the server has not
\*                received yet
\*   inbox        the events sent to the socket that the page has not
\*                handled yet
\*   roomList     the rooms state of RoomSelector
\*   creating     the name in the POST /rooms request of RoomSelector that is
\*                not answered yet
\*   called       the arguments of the calls of onRoomChange in the last step
\*   acts         the number of user actions so far
NoPage ==
  [token |-> NoToken, path |-> "", loginError |-> "", mounted |-> FALSE,
   socket |-> "none", connected |-> FALSE, currentRoom |-> General,
   handlerRoom |-> General, list |-> <<>>, error |-> "", timer |-> FALSE,
   out |-> <<>>, inbox |-> <<>>, roomList |-> {}, creating |-> <<>>,
   called |-> <<>>, acts |-> 0]

\* ------------------------------------------------------------------- Init
Init ==
  /\ status = [s \in Sockets |-> "none"]
  /\ session = [s \in Sockets |-> NoSession]
  /\ response = NoResponse
  /\ rooms = [s \in Sockets |-> {}]
  /\ roomStore = Rooms(ExistingRooms)
  /\ messages = <<>>
  /\ now = 0
  /\ tasks = {}
  /\ issued = [op \in Requests |-> 0]
  /\ budget = [joinRoom |-> MaxJoins, chatMessage |-> MaxChats, postMessages |-> 0,
               getMessages |-> 0, postRooms |-> 0]
  /\ emitted = Quiet
  /\ page = NoPage

\* ------------------------------------------------------------ connection
\* A handshake: the io.use middleware and, when it lets the socket in,
\* io.on('connection'): the socket is registered with its identity and is in
\* the room named by its own id. A refused client gets connect_error and the
\* socket is dropped. Connections are numbered in the order they are made.
\* The one await of the middleware reads the User collection, which no
\* handler writes, so the handshake is one step.
Connect(s, token, answered) ==
  /\ status[s] = "none"
  /\ \A o \in Sockets : Rank(o) < Rank(s) => status[o] # "none"
  /\ IF AuthError(token, answered) # ""
       THEN /\ emitted' =
                 [Quiet EXCEPT ![s] =
                    <<[Event("connect_error", ReqId("connection", Rank(s)), <<>>)
                         EXCEPT !.message = AuthError(token, answered)]>>]
            /\ UNCHANGED <<status, session, rooms>>
       ELSE /\ status' = [status EXCEPT ![s] = "connected"]
            /\ session' =
                 [session EXCEPT
                    ![s] = Identity(CHOOSE u \in Users : u.id = token.userId)]
            /\ rooms' = [rooms EXCEPT ![s] = {s}]
            /\ emitted' = Quiet
  /\ response' = NoResponse
  /\ UNCHANGED <<roomStore, messages, now, tasks, issued, budget>>

\* socket.on('disconnect'): Socket.io has left every room of the socket and
\* dropped it from the namespace; the handler itself only logs.
Disconnect(s) ==
  /\ Live(s)
  /\ status' = [status EXCEPT ![s] = "disconnected"]
  /\ rooms' = [rooms EXCEPT ![s] = {}]
  /\ emitted' = Quiet
  /\ response' = NoResponse
  /\ UNCHANGED <<session, roomStore, messages, now, tasks, issued, budget>>

\* --------------------------------------------------------------- joinRoom
\* A suspended handler. member is whether the socket was in the room when
\* the request arrived; payload is what the client added to room and text;
\* limit and skip are those of a history request.
Task(id, s, op, pc, room) ==
  [id |-> id, sock |-> s, op |-> op, pc |-> pc, room |-> room,
   text |-> <<>>, ts |-> 0, username |-> "", member |-> room \in rooms[s],
   payload |-> [username |-> NoName, ts |-> NoTs], limit |-> 0, skip |-> 0,
   result |-> <<>>]

\* A join that puts every socket in the room.
SocketJoinAll(rs, s, room) == [o \in Sockets |-> rs[o] \cup {room}]

\* A join that first leaves every other room (the commented-out loop).
SocketJoinOnly(rs, s, room) == [rs EXCEPT ![s] = {s, room}]

\* socket.join(roomName): adds the room to the adapter's rooms of the socket
\* id; nothing in the handler looks at whether the socket is still connected.
SocketJoin(rs, s, room) == [rs EXCEPT ![s] = @ \cup {room}]

\* A leave that leaves every room but that of the socket id.
SocketLeaveAll(rs, s, room) == [rs EXCEPT ![s] = @ \cap {s}]

\* socket.leave(roomName)
SocketLeave(rs, s, room) == [rs EXCEPT ![s] = @ \ {room}]

\* A lookup that finds every room.
RoomExistsAlways(roomName) == TRUE

\* The answer of Room.findOne({ name: roomName }) is a document.
RoomExists(roomName) == \E room \in roomStore : room.name = roomName

\* joinRoom up to the await of Room.findOne: validation of the argument and
\* the check of the mongoose connection (reconnecting when it is down).
JoinRoom(s, room, db) ==
  LET req == ReqId("joinRoom", issued["joinRoom"] + 1) IN
  /\ Live(s)
  /\ issued["joinRoom"] < budget["joinRoom"]
  /\ issued' = [issued EXCEPT !["joinRoom"] = @ + 1]
  /\ IF InvalidString(room)
       THEN /\ emitted' = Emit(Quiet, s, ErrorEvent(req, "request", "Invalid room name"))
            /\ tasks' = tasks
       ELSE IF db = "lost"
         THEN /\ emitted' = Emit(Quiet, s,
                   ErrorEvent(req, "connectDB",
                              "Database connection lost. Please refresh the page."))
              /\ tasks' = tasks
         ELSE /\ tasks' = tasks \cup {Task(req, s, "joinRoom", "findRoom", Trim(room.val))}
              /\ emitted' = Quiet
  /\ response' = NoResponse
  /\ UNCHANGED <<session, status, rooms, roomStore, messages, now, budget>>

\* joinRoom from the answer of Room.findOne to the await of Message.find.
JoinRoomLookup(t, outcome) ==
  /\ t \in tasks /\ t.op = "joinRoom" /\ t.pc = "findRoom"
  /\ IF outcome = "authFailed"
       THEN /\ emitted' = Emit(Quiet, t.sock, ErrorEvent(t.id, "findRoom",
                   "Database authentication failed. Please check your MongoDB connection string."))
            /\ tasks' = tasks \ {t}
            /\ rooms' = rooms
       ELSE IF outcome = "dbError"
         THEN /\ emitted' = Emit(Quiet, t.sock,
                   ErrorEvent(t.id, "findRoom", "Database error. Please try again later."))
              /\ tasks' = tasks \ {t}
              /\ rooms' = rooms
         ELSE IF ~RoomExists(t.room)
           THEN /\ emitted' = Emit(Quiet, t.sock,
                     [ErrorEvent(t.id, "findRoom",
                                 "Room does not exist. Please create the room first.")
                        EXCEPT !.room = t.room])
                /\ tasks' = tasks \ {t}
                /\ rooms' = rooms
           ELSE /\ rooms' = SocketJoin(rooms, t.sock, t.room)
                /\ tasks' = (tasks \ {t}) \cup {[t EXCEPT !.pc = "findMessages"]}
                /\ emitted' = Quiet
  /\ response' = NoResponse
  /\ UNCHANGED <<session, status, roomStore, messages, now, issued, budget>>

\* io.to(roomName): the room with the joining socket.
UserJoinedTargetsAll(t) == RoomSockets(t.room)

\* socket.to(roomName): the connected sockets of the room but the socket
\* itself.
UserJoinedTargets(t) == RoomSockets(t.room) \ {t.sock}

\* joinRoom from the answer of Message.find to the end: roomHistory to the
\* socket, userJoined to the other sockets of the room.
JoinRoomHistory(t, ok, history) ==
  /\ t \in tasks /\ t.op = "joinRoom" /\ t.pc = "findMessages"
  /\ tasks' = tasks \ {t}
  /\ IF ~ok
       THEN /\ emitted' = Emit(Quiet, t.sock, ErrorEvent(t.id, "findMessages", "Failed to join room"))
       ELSE /\ history \in RoomHistory(messages, t.room)
            /\ emitted' =
                 Broadcast(
                   Emit(Quiet, t.sock,
                        [Event("roomHistory", t.id, t.room) EXCEPT !.history = history]),
                   UserJoinedTargets(t),
                   [Event("userJoined", t.id, t.room)
                      EXCEPT !.username = session[t.sock].username])
  /\ response' = NoResponse
  /\ UNCHANGED <<session, status, rooms, roomStore, messages, now, issued, budget>>

\* ------------------------------------------------------------ chatMessage
\* The argument of chatMessage: an object with room and text, or nothing.
ChatInputs(s) ==
  {[present |-> TRUE, room |-> r, text |-> x, extra |-> e] :
     r \in RoomInputs(s), x \in TextInputs, e \in ExtraInputs}
    \cup {[present |-> FALSE, room |-> NotAString, text |-> NotAString,
            extra |-> [username |-> NoName, ts |-> NoTs]]}

\* A membership check that lets every room pass.
NotInRoomNever(s, roomName) == FALSE

\* if (!socket.rooms.has(roomName))
NotInRoom(s, roomName) == roomName \notin rooms[s]

\* An author taken from the payload when it names one.
PayloadAuthor(s, data) ==
  IF data.extra.username.given THEN data.extra.username.val
  ELSE session[s].username

\* username: socket.username
Author(s, data) == session[s].username

\* A timestamp taken from the payload when it carries one.
ClientDate(data, date) ==
  IF data.extra.ts.given THEN data.extra.ts.val ELSE date

\* ts: new Date()
MessageDate(data, date) == date

\* A save that overwrites the newest document of the collection.
SaveReplacing(store, doc) ==
  IF store = <<>> THEN <<doc>> ELSE [store EXCEPT ![Len(store)] = doc]

\* message.save() of a new document: an insert, which leaves every other
\* document of the collection as it is.
Save(store, doc) == Append(store, doc)

\* new Message({ room, username, text, ts })
NewMessage(id, author, roomName, messageText, date) ==
  [id |-> id, room |-> roomName, username |-> author, text |-> messageText,
   ts |-> date]

\* The document chatMessage builds from a payload that passed the checks.
ChatDocument(req, s, data, date) ==
  NewMessage(req, Author(s, data), Trim(data.room.val), Trim(data.text.val),
             MessageDate(data, date))

\* chatMessage up to the await of message.save(): validation, the membership
\* check and the construction of the document.
ChatMessage(s, data, date) ==
  LET req == ReqId("chatMessage", issued["chatMessage"] + 1)
      reject(message) ==
        /\ emitted' = Emit(Quiet, s, ErrorEvent(req, "request", message))
        /\ tasks' = tasks
  IN
  /\ Live(s)
  /\ issued["chatMessage"] < budget["chatMessage"]
  /\ issued' = [issued EXCEPT !["chatMessage"] = @ + 1]
  /\ date \in now..MaxClock
  /\ now' = IF ~data.present \/ InvalidString(data.room) \/ InvalidString(data.text)
                 \/ Len(data.text.val) > MaxTextLength
                 \/ NotInRoom(s, Trim(data.room.val))
               THEN now ELSE date
  /\ IF ~data.present THEN reject("Failed to send message")
     ELSE IF InvalidString(data.room) THEN reject("Invalid room name")
     ELSE IF InvalidString(data.text) THEN reject("Message text is required")
     ELSE IF Len(data.text.val) > MaxTextLength
       THEN reject("Message cannot exceed 1000 characters")
     ELSE IF NotInRoom(s, Trim(data.room.val))
       THEN reject("You must join the room first")
     ELSE LET m == ChatDocument(req, s, data, date) IN
          /\ tasks' = tasks \cup
               {[Task(req, s, "chatMessage", "save", m.room)
                   EXCEPT !.text = m.text, !.ts = m.ts, !.username = m.username,
                          !.payload = data.extra]}
          /\ emitted' = Quiet
  /\ response' = NoResponse
  /\ UNCHANGED <<session, status, rooms, roomStore, messages, budget>>

\* The document a suspended chatMessage is saving.
TaskMessage(t) ==
  [id |-> t.id, room |-> t.room, username |-> t.username, text |-> t.text,
   ts |-> t.ts]

\* socket.to(roomName): the room without the sender.
MessageTargetsExceptSender(t) == RoomSockets(t.room) \ {t.sock}

\* io.emit: every connected socket.
MessageTargetsAll(t) == {s \in Sockets : Live(s)}

\* io.to(roomName).emit('message', ...)
MessageTargets(t) == RoomSockets(t.room)

\* A handler that broadcasts whatever the save answered.
ChatMessageSavedUnchecked(t, ok) ==
  /\ t \in tasks /\ t.op = "chatMessage" /\ t.pc = "save"
  /\ tasks' = tasks \ {t}
  /\ messages' = IF ok THEN Append(messages, TaskMessage(t)) ELSE messages
  /\ emitted' = Broadcast(Quiet, MessageTargets(t),
       [Event("message", t.id, t.room) EXCEPT
          !.username = t.username, !.msg = TaskMessage(t)])
  /\ response' = NoResponse
  /\ UNCHANGED <<session, status, rooms, roomStore, now, issued, budget>>

\* A handler that gives up when its socket has gone.
ChatMessageSavedIfConnected(t, ok) ==
  /\ t \in tasks /\ t.op = "chatMessage" /\ t.pc = "save"
  /\ tasks' = tasks \ {t}
  /\ messages' = IF ok /\ Live(t.sock) THEN Save(messages, TaskMessage(t)) ELSE messages
  /\ emitted' =
       IF ok /\ Live(t.sock)
         THEN Broadcast(Quiet, MessageTargets(t),
                [Event("message", t.id, t.room) EXCEPT
                   !.username = t.username, !.msg = TaskMessage(t)])
         ELSE Quiet
  /\ response' = NoResponse
  /\ UNCHANGED <<session, status, rooms, roomStore, now, issued, budget>>

\* chatMessage from the answer of message.save() to the end: the broadcast,
\* or the error of the catch block.
ChatMessageSaved(t, ok) ==
  /\ t \in tasks /\ t.op = "chatMessage" /\ t.pc = "save"
  /\ tasks' = tasks \ {t}
  /\ IF ok
       THEN /\ messages' = Save(messages, TaskMessage(t))
            /\ emitted' = Broadcast(Quiet, MessageTargets(t),
                 [Event("message", t.id, t.room) EXCEPT
                    !.username = t.username, !.msg = TaskMessage(t)])
       ELSE /\ messages' = messages
            /\ emitted' = Emit(Quiet, t.sock, ErrorEvent(t.id, "save", "Failed to send message"))
  /\ response' = NoResponse
  /\ UNCHANGED <<session, status, rooms, roomStore, now, issued, budget>>

\* -------------------------------------------------------------- leaveRoom
\* socket.on('leaveRoom'): no reply of any kind.
LeaveRoom(s, room) ==
  /\ Live(s)
  /\ rooms' = IF room.str /\ room.val # <<>>
                THEN SocketLeave(rooms, s, Trim(room.val))
                ELSE rooms
  /\ emitted' = Quiet
  /\ response' = NoResponse
  /\ UNCHANGED <<session, status, roomStore, messages, now, tasks, issued, budget>>

\* ------------------------------------------------- POST /api/chat/messages
\* Bodies of POST /api/chat/messages: a room that exists, one that does not
\* and a blank one, with the texts of chatMessage.
PostInputs ==
  {[room |-> r, text |-> x] :
     r \in {<<"a">>, <<" ", "g">>, <<" ">>}, x \in {<<"h", "i", " ">>, <<>>}}

\* The bearer tokens of the REST requests.
BearerInputs == {Token("u1", TRUE, FALSE), NoToken}

\* The express-validator chain of the route: "" when the body passes.
PostInvalid(body) ==
  IF Trim(body.room) = <<>> THEN "Room is required"
  ELSE IF Trim(body.text) = <<>> THEN "Message text is required"
  ELSE IF Len(Trim(body.text)) > MaxTextLength
    THEN "Message cannot exceed 1000 characters"
  ELSE ""

\* An authMiddleware that lets every request through.
BearerErrorNone(token) == ""

\* authMiddleware: the message of its 401 response, "" when it calls next().
BearerError(token) ==
  IF ~token.present
    THEN "No token provided. Authorization header must be in format: Bearer <token>"
  ELSE IF Verify(token) = "JsonWebTokenError" THEN "Invalid token"
  ELSE IF Verify(token) = "TokenExpiredError" THEN "Token expired"
  ELSE IF FindById(token.userId) = {} THEN "User not found"
  ELSE ""

\* res.status(code).json({ message, data })
Response(code, message, data) ==
  [code |-> code, message |-> message, data |-> data, messages |-> <<>>]

\* POST /api/chat/messages up to the await of message.save(): validate,
\* authMiddleware and the construction of the document. The route looks at
\* neither the Room collection nor the sockets.
PostMessages(token, body, date) ==
  LET req == ReqId("postMessages", issued["postMessages"] + 1)
      passes == PostInvalid(body) = "" /\ BearerError(token) = ""
  IN
  /\ issued["postMessages"] < budget["postMessages"]
  /\ issued' = [issued EXCEPT !["postMessages"] = @ + 1]
  /\ date \in now..MaxClock
  /\ now' = IF passes THEN date ELSE now
  /\ IF PostInvalid(body) # ""
       THEN /\ response' = Response(400, "Validation failed", NoMessage)
            /\ tasks' = tasks
       ELSE IF BearerError(token) # ""
         THEN /\ response' = Response(401, BearerError(token), NoMessage)
              /\ tasks' = tasks
         ELSE /\ response' = NoResponse
              /\ tasks' = tasks \cup
                   {[id |-> req, sock |-> <<>>, op |-> "postMessages", pc |-> "save",
                     room |-> Trim(body.room), text |-> Trim(body.text), ts |-> date,
                     username |-> (CHOOSE u \in Users : u.id = token.userId).username,
                     member |-> FALSE, payload |-> [username |-> NoName, ts |-> NoTs],
                     limit |-> 0, skip |-> 0, result |-> <<>>]}
  /\ emitted' = Quiet
  /\ UNCHANGED <<status, session, rooms, roomStore, messages, budget>>

\* POST /api/chat/messages from the answer of message.save() to the end: the
\* 201 response with the document, or next(error) and the 500 of the error
\* handler. Nothing is emitted to any socket.
PostMessagesSaved(t, ok) ==
  /\ t \in tasks /\ t.op = "postMessages" /\ t.pc = "save"
  /\ tasks' = tasks \ {t}
  /\ IF ok
       THEN /\ messages' = Save(messages, TaskMessage(t))
            /\ response' = Response(201, "Message created successfully", TaskMessage(t))
       ELSE /\ messages' = messages
            /\ response' = Response(500, "Internal Server Error", NoMessage)
  /\ emitted' = Quiet
  /\ UNCHANGED <<status, session, rooms, roomStore, now, issued, budget>>

\* -------------------------------------------------- GET /api/chat/messages
\* The defaults and the limits of the query parameters limit and skip.
DefaultLimit == 50
DefaultSkip == 0
MinLimit == 1
MaxLimit == 100
MinSkip == 0

\* A query parameter: absent, or the string the URL carries.
NoParam == [present |-> FALSE, raw |-> <<>>]
Param(raw) == [present |-> TRUE, raw |-> raw]

\* The query strings of the GET requests: a room with messages, one with a
\* single message and a blank one; limits and skips inside and outside their
\* ranges, and one that is no number.
GetInputs ==
  {[room |-> r, limit |-> l, skip |-> k] :
     r \in {<<"a">>, <<" ", "b">>, <<" ">>},
     l \in {NoParam, Param(<<"2">>), Param(<<"1", "0", "0">>), Param(<<"0">>),
            Param(<<"1", "0", "1">>), Param(<<"2", "x">>)},
     k \in {NoParam, Param(<<"1">>), Param(<<"0">>), Param(<<"-", "1">>)}}

\* The two routes: /messages?room= and /messages/:roomId.
Routes == {"query", "param"}

Digits == <<"0", "1", "2", "3", "4", "5", "6", "7", "8", "9">>
IsDigit(c) == \E d \in DOMAIN Digits : Digits[d] = c
DigitValue(c) == (CHOOSE d \in DOMAIN Digits : Digits[d] = c) - 1

\* The number a string of decimal digits denotes.
RECURSIVE DecimalValue(_)
DecimalValue(ds) ==
  IF ds = <<>> THEN 0
  ELSE 10 * DecimalValue(SubSeq(ds, 1, Len(ds) - 1)) + DigitValue(ds[Len(ds)])

\* A string without its leading sign.
Unsigned(str) ==
  IF str # <<>> /\ str[1] \in {"-", "+"} THEN Tail(str) ELSE str

Signed(str, n) == IF str # <<>> /\ str[1] = "-" THEN 0 - n ELSE n

\* isInt({ min }): an optional sign and digits only, not below min.
IsIntMin(str, min) ==
  /\ Unsigned(str) # <<>>
  /\ \A i \in DOMAIN Unsigned(str) : IsDigit(Unsigned(str)[i])
  /\ Signed(str, DecimalValue(Unsigned(str))) >= min

\* isInt({ min, max })
IsInt(str, min, max) ==
  IsIntMin(str, min) /\ Signed(str, DecimalValue(Unsigned(str))) <= max

\* The longest prefix of digits of a string.
RECURSIVE DigitPrefix(_)
DigitPrefix(str) ==
  IF str = <<>> \/ ~IsDigit(str[1]) THEN <<>>
  ELSE <<str[1]>> \o DigitPrefix(Tail(str))

\* Number.parseInt(value, 10): leading blanks skipped, an optional sign, the
\* digits up to the first character that is none; NaN without a digit and
\* for undefined.
NaN == [nan |-> TRUE, val |-> 0]
ParseInt(p) ==
  LET str == TrimLeft(p.raw)
      ds == DigitPrefix(Unsigned(str))
  IN IF ~p.present \/ ds = <<>> THEN NaN
     ELSE [nan |-> FALSE, val |-> Signed(str, DecimalValue(ds))]

\* n || d
OrDefault(n, d) == IF n.nan \/ n.val = 0 THEN d ELSE n.val

\* The validation chain of the two GET routes and validate: TRUE when the
\* request is answered 400. Only /messages has a rule for the room, and
\* optional() passes a parameter that is absent.
GetInvalid(route, q) ==
  \/ route = "query" /\ Trim(q.room) = <<>>
  \/ q.limit.present /\ ~IsInt(q.limit.raw, MinLimit, MaxLimit)
  \/ q.skip.present /\ ~IsIntMin(q.skip.raw, MinSkip)

\* .skip(n)
Skip(s, n) == IF Len(s) > n THEN SubSeq(s, n + 1, Len(s)) ELSE <<>>

\* The query without its skip.
RestHistoryNoSkip(store, room, limit, skip) ==
  {Reverse(Limit(sorted, limit)) :
     sorted \in SortByTsDesc(RoomMessages(store, room))}

\* Message.find({ room }).sort({ ts: -1 }).limit(limit).skip(skip).lean()
\* then reverse(): the query skips before it limits, in whatever order the
\* two are chained.
RestHistory(store, room, limit, skip) ==
  {Reverse(Limit(Skip(sorted, skip), limit)) :
     sorted \in SortByTsDesc(RoomMessages(store, room))}

\* res.json({ success: true, room, count, messages })
Listing(result) ==
  [code |-> 200, message |-> "", data |-> NoMessage, messages |-> result]

\* GET /api/chat/messages and GET /api/chat/messages/:roomId up to the await
\* of the query: the validation chain, validate, authMiddleware and the
\* reading of limit and skip.
GetMessages(route, token, q) ==
  LET req == ReqId("getMessages", issued["getMessages"] + 1)
  IN
  /\ issued["getMessages"] < budget["getMessages"]
  /\ issued' = [issued EXCEPT !["getMessages"] = @ + 1]
  /\ IF GetInvalid(route, q)
       THEN /\ response' = Response(400, "Validation failed", NoMessage)
            /\ tasks' = tasks
       ELSE IF BearerError(token) # ""
         THEN /\ response' = Response(401, BearerError(token), NoMessage)
              /\ tasks' = tasks
         ELSE /\ response' = NoResponse
              /\ tasks' = tasks \cup
                   {[id |-> req, sock |-> <<>>, op |-> "getMessages", pc |-> "find",
                     room |-> Trim(q.room), text |-> <<>>, ts |-> 0,
                     username |-> "",
                     member |-> FALSE, payload |-> [username |-> NoName, ts |-> NoTs],
                     limit |-> OrDefault(ParseInt(q.limit), DefaultLimit),
                     skip |-> OrDefault(ParseInt(q.skip), DefaultSkip),
                     result |-> <<>>]}
  /\ emitted' = Quiet
  /\ UNCHANGED <<status, session, rooms, roomStore, messages, now, budget>>

\* The two GET routes from the answer of the query to the end: the 200
\* response with the messages oldest first, or next(error) and the 500 of
\* the error handler.
GetMessagesFound(t, ok, result) ==
  /\ t \in tasks /\ t.op = "getMessages" /\ t.pc = "find"
  /\ tasks' = tasks \ {t}
  /\ IF ok
       THEN /\ result \in RestHistory(messages, t.room, t.limit, t.skip)
            /\ response' = Listing(result)
       ELSE /\ result = <<>>
            /\ response' = Response(500, "Internal Server Error", NoMessage)
  /\ emitted' = Quiet
  /\ UNCHANGED <<status, session, rooms, roomStore, messages, now, issued, budget>>

\* ------------------------------------------------------------------- Next
Connection ==
  \/ \E s \in Sockets, answered \in BOOLEAN :
       \E token \in TokenInputs(s) : Connect(s, token, answered) /\ UNCHANGED page
  \/ \E s \in Sockets : Disconnect(s) /\ UNCHANGED page
  \/ \E s \in Sockets, room \in LeaveInputs : LeaveRoom(s, room) /\ UNCHANGED page

Joining ==
  \/ \E s \in Sockets, db \in {"ready", "reconnected", "lost"} :
       \E room \in JoinInputs : JoinRoom(s, room, db) /\ UNCHANGED page
  \/ \E t \in tasks, outcome \in {"found", "dbError", "authFailed"} :
       JoinRoomLookup(t, outcome) /\ UNCHANGED page
  \/ \E t \in {u \in tasks : u.pc = "findMessages"}, ok \in BOOLEAN :
       \E history \in IF ok THEN RoomHistory(messages, t.room) ELSE {<<>>} :
         JoinRoomHistory(t, ok, history) /\ UNCHANGED page

Sending ==
  \/ \E s \in Sockets, date \in 0..MaxClock :
       \E data \in ChatInputs(s) : ChatMessage(s, data, date) /\ UNCHANGED page
  \/ \E t \in tasks, ok \in BOOLEAN : ChatMessageSaved(t, ok) /\ UNCHANGED page

Next == Connection \/ Joining \/ Sending

\* The server from its start, with an empty Message collection.
Spec == Init /\ [][Next]_vars

\* ------------------------------------------------- concurrent senders
\* Both sockets are connected and in room "a"; only chatMessage requests
\* follow.
InitSend ==
  /\ status = [s \in Sockets |-> "connected"]
  /\ session =
       [s \in Sockets |-> Identity(CHOOSE u \in Users : u.username = UserOf(s))]
  /\ response = NoResponse
  /\ rooms = [s \in Sockets |-> {s, <<"a">>}]
  /\ roomStore = Rooms(ExistingRooms)
  /\ messages = <<>>
  /\ now = 0
  /\ tasks = {}
  /\ issued = [op \in Requests |-> 0]
  /\ budget = [joinRoom |-> 0, chatMessage |-> MaxSends, postMessages |-> 0,
               getMessages |-> 0, postRooms |-> 0]
  /\ emitted = Quiet
  /\ page = NoPage

NextSend ==
  \/ Sending
  \/ \E s \in Sockets : Disconnect(s) /\ UNCHANGED page
  \/ \E s \in Sockets, room \in LeaveInputs : LeaveRoom(s, room) /\ UNCHANGED page

SpecSend == InitSend /\ [][NextSend]_vars

\* The await of message.save() of the k-th chatMessage returns or throws.
SaveReturns(k) ==
  \E t \in tasks, ok \in BOOLEAN :
    t.id = ReqId("chatMessage", k) /\ ChatMessageSaved(t, ok) /\ UNCHANGED page

\* The same traffic when every call of message.save() returns or fails in
\* the end, which resumes the handler that awaits it.
SpecSendFair == SpecSend /\ \A k \in 1..MaxSends : WF_vars(SaveReturns(k))

\* ------------------------------------------------- the REST interface
Posting ==
  \/ \E token \in BearerInputs, body \in PostInputs, date \in 0..MaxClock :
       PostMessages(token, body, date) /\ UNCHANGED page
  \/ \E t \in tasks, ok \in BOOLEAN : PostMessagesSaved(t, ok) /\ UNCHANGED page

\* Both sockets are connected and in room "a"; POST /api/chat/messages
\* requests follow while sockets leave and disconnect.
InitRest ==
  /\ status = [s \in Sockets |-> "connected"]
  /\ session =
       [s \in Sockets |-> Identity(CHOOSE u \in Users : u.username = UserOf(s))]
  /\ response = NoResponse
  /\ rooms = [s \in Sockets |-> {s, <<"a">>}]
  /\ roomStore = Rooms(ExistingRooms)
  /\ messages = <<>>
  /\ now = 0
  /\ tasks = {}
  /\ issued = [op \in Requests |-> 0]
  /\ budget = [joinRoom |-> 0, chatMessage |-> 0, postMessages |-> MaxPosts,
               getMessages |-> 0, postRooms |-> 0]
  /\ emitted = Quiet
  /\ page = NoPage

NextRest ==
  \/ Posting
  \/ \E s \in Sockets : Disconnect(s) /\ UNCHANGED page
  \/ \E s \in Sockets, room \in LeaveInputs : LeaveRoom(s, room) /\ UNCHANGED page

SpecRest == InitRest /\ [][NextRest]_vars

\* ------------------------------------------------- long and odd inputs
\* The string of n characters c.
Repeat(c, n) == [i \in 1..n |-> c]

\* The characters of /^[a-zA-Z0-9_-]+$/.
NameChars ==
  {"a", "b", "c", "d", "e", "f", "g", "h", "i", "j", "k", "l", "m",
   "n", "o", "p", "q", "r", "s", "t", "u", "v", "w", "x", "y", "z",
   "A", "B", "C", "D", "E", "F", "G", "H", "I", "J", "K", "L", "M",
   "N", "O", "P", "Q", "R", "S", "T", "U", "V", "W", "X", "Y", "Z",
   "0", "1", "2", "3", "4", "5", "6", "7", "8", "9", "_", "-"}

\* The validators of the name of a Room document: minlength, maxlength and
\* match.
MatchesGrammar(name) ==
  /\ Len(name) >= 1
  /\ Len(name) <= RoomNameMax
  /\ \A i \in DOMAIN name : name[i] \in NameChars

\* Room arguments of joinRoom: a room that exists, a name with a character
\* outside the grammar, a name that is too long and a blank one.
GrammarInputs ==
  {Str(<<"a">>), Str(<<"g", "!">>), Str(Repeat("x", RoomNameMax + 1)), Str(<<" ">>)}

\* Text fields of chatMessage around the length bound: of 1000 characters,
\* of 1000 characters and a trailing space, of 1001 characters, short,
\* blank and empty.
LongTextInputs ==
  {Str(Repeat("x", MaxTextLength)),
   Str(Append(Repeat("x", MaxTextLength), " ")),
   Str(Repeat("x", MaxTextLength + 1)),
   Str(<<"h", "i", " ">>), Str(<<" ">>), Str(<<>>)}

\* chatMessage payloads for room "a" with these texts.
LongChatInputs ==
  {[present |-> TRUE, room |-> Str(<<"a">>), text |-> x,
    extra |-> [username |-> NoName, ts |-> NoTs]] : x \in LongTextInputs}

\* Socket 1 is connected and in room "a", socket 2 is connected; one
\* joinRoom and one chatMessage with these inputs follow.
InitInputs ==
  /\ status = [s \in Sockets |-> "connected"]
  /\ session =
       [s \in Sockets |-> Identity(CHOOSE u \in Users : u.username = UserOf(s))]
  /\ response = NoResponse
  /\ rooms = [s \in Sockets |-> IF s = <<"1">> THEN {s, <<"a">>} ELSE {s}]
  /\ roomStore = Rooms(ExistingRooms)
  /\ messages = <<>>
  /\ now = 0
  /\ tasks = {}
  /\ issued = [op \in Requests |-> 0]
  /\ budget = [joinRoom |-> MaxReads, chatMessage |-> MaxChats, postMessages |-> 0,
               getMessages |-> 0, postRooms |-> 0]
  /\ emitted = Quiet
  /\ page = NoPage

NextInputs ==
  \/ \E s \in Sockets, date \in 0..MaxClock :
       \E data \in LongChatInputs : ChatMessage(s, data, date) /\ UNCHANGED page
  \/ \E t \in tasks, ok \in BOOLEAN : ChatMessageSaved(t, ok) /\ UNCHANGED page
  \/ \E s \in Sockets, room \in GrammarInputs : JoinRoom(s, room, "ready") /\ UNCHANGED page
  \/ \E t \in tasks, outcome \in {"found", "dbError"} : JoinRoomLookup(t, outcome) /\ UNCHANGED page
  \/ \E t \in {u \in tasks : u.pc = "findMessages"}, ok \in BOOLEAN :
       \E history \in IF ok THEN RoomHistory(messages, t.room) ELSE {<<>>} :
         JoinRoomHistory(t, ok, history) /\ UNCHANGED page

SpecInputs == InitInputs /\ [][NextInputs]_vars

\* ------------------------------------------------- a collection with history
\* A stored message of room "a" or "b" from before the run: its _id and the
\* time it was saved, counted back from the start of the run.
Stored(k, room, ts) ==
  [id |-> ReqId("stored", k), room |-> room, username |-> "carol",
   text |-> <<"o", "l", "d">>, ts |-> ts]

\* n messages of room "a" saved one per clock tick, the two oldest in the
\* same tick when tie holds, then one newer message of room "b".
Preloaded(n, tie) ==
  [k \in 1..(n + 1) |->
     IF k = n + 1 THEN Stored(k, <<"b">>, 0 - 1)
     ELSE Stored(k, <<"a">>, IF tie /\ k = 1 THEN 0 - n ELSE (k - n) - 2)]

PreloadedStores ==
  {Preloaded(n, tie) : n \in {MaxPreload - 2, MaxPreload}, tie \in BOOLEAN}

\* The server started on a Message collection that already holds messages;
\* only joinRoom requests follow.
InitHistory ==
  /\ status = [s \in Sockets |-> "none"]
  /\ session = [s \in Sockets |-> NoSession]
  /\ response = NoResponse
  /\ rooms = [s \in Sockets |-> {}]
  /\ roomStore = Rooms(ExistingRooms)
  /\ messages \in PreloadedStores
  /\ now = 0
  /\ tasks = {}
  /\ issued = [op \in Requests |-> 0]
  /\ budget = [joinRoom |-> MaxReads, chatMessage |-> 0, postMessages |-> 0,
               getMessages |-> 0, postRooms |-> 0]
  /\ emitted = Quiet
  /\ page = NoPage

NextHistory == Connection \/ Joining

SpecHistory == InitHistory /\ [][NextHistory]_vars

\* ------------------------------------------------- a save that is late
\* The messages of room "a" saved, one per clock tick, while the save of an
\* older chatMessage was still pending: one less than a history holds.
Backlog ==
  [k \in 1..(HistoryLimit - 1) |-> Stored(k, <<"a">>, k - HistoryLimit)]

\* The chatMessage handler of socket 1 that took its timestamp before all of
\* them and still waits for message.save().
LateSave ==
  [id |-> ReqId("chatMessage", 0), sock |-> <<"1">>, op |-> "chatMessage",
   pc |-> "save", room |-> <<"a">>, text |-> <<"h", "i">>,
   ts |-> 0 - HistoryLimit, username |-> "alice", member |-> TRUE,
   payload |-> [username |-> NoName, ts |-> NoTs], limit |-> 0, skip |-> 0,
   result |-> <<>>]

\* Both sockets are connected and in room "a" and the late save is pending;
\* chatMessage and joinRoom requests follow.
InitBacklog ==
  /\ status = [s \in Sockets |-> "connected"]
  /\ session =
       [s \in Sockets |-> Identity(CHOOSE u \in Users : u.username = UserOf(s))]
  /\ response = NoResponse
  /\ rooms = [s \in Sockets |-> {s, <<"a">>}]
  /\ roomStore = Rooms(ExistingRooms)
  /\ messages = Backlog
  /\ now = 0
  /\ tasks = {LateSave}
  /\ issued = [op \in Requests |-> 0]
  /\ budget = [joinRoom |-> MaxReads, chatMessage |-> MaxChats, postMessages |-> 0,
               getMessages |-> 0, postRooms |-> 0]
  /\ emitted = Quiet
  /\ page = NoPage

NextBacklog == Sending \/ Joining

SpecBacklog == InitBacklog /\ [][NextBacklog]_vars

\* ------------------------------------------------- reading over REST
Getting ==
  \/ \E route \in Routes, token \in TokenInputs(<<"1">>), q \in GetInputs :
       GetMessages(route, token, q) /\ UNCHANGED page
  \/ \E t \in {u \in tasks : u.op = "getMessages"}, ok \in BOOLEAN :
       \E result \in IF ok THEN RestHistory(messages, t.room, t.limit, t.skip)
                           ELSE {<<>>} :
         GetMessagesFound(t, ok, result) /\ UNCHANGED page

\* The server started on a Message collection that already holds messages;
\* only GET requests follow.
InitGet ==
  /\ status = [s \in Sockets |-> "none"]
  /\ session = [s \in Sockets |-> NoSession]
  /\ response = NoResponse
  /\ rooms = [s \in Sockets |-> {}]
  /\ roomStore = Rooms(ExistingRooms)
  /\ messages \in PreloadedStores
  /\ now = 0
  /\ tasks = {}
  /\ issued = [op \in Requests |-> 0]
  /\ budget = [joinRoom |-> 0, chatMessage |-> 0, postMessages |-> 0,
               getMessages |-> MaxGets, postRooms |-> 0]
  /\ emitted = Quiet
  /\ page = NoPage

NextGet == Getting

SpecGet == InitGet /\ [][NextGet]_vars

\* ------------------------------------------------- every way to the store
\* Both sockets are connected and in room "a" and the collection holds one
\* message of that room; MaxRequests requests of any kinds follow.
InitStore ==
  /\ status = [s \in Sockets |-> "connected"]
  /\ session =
       [s \in Sockets |-> Identity(CHOOSE u \in Users : u.username = UserOf(s))]
  /\ response = NoResponse
  /\ rooms = [s \in Sockets |-> {s, <<"a">>}]
  /\ roomStore = Rooms(ExistingRooms)
  /\ messages = <<Stored(1, <<"a">>, 0 - 1)>>
  /\ now = 0
  /\ tasks = {}
  /\ issued = [op \in Requests |-> 0]
  /\ budget \in {b \in [Requests -> 0..MaxRequests] :
                    b["joinRoom"] + b["chatMessage"] + b["postMessages"]
                      + b["getMessages"] = MaxRequests
                    /\ b["postRooms"] = 0}
  /\ emitted = Quiet
  /\ page = NoPage

NextStore ==
  \/ Joining
  \/ Sending
  \/ Posting
  \/ Getting
  \/ \E s \in Sockets : Disconnect(s) /\ UNCHANGED page
  \/ \E s \in Sockets, room \in LeaveInputs : LeaveRoom(s, room) /\ UNCHANGED page

SpecStore == InitStore /\ [][NextStore]_vars

\* -------------------------------------------------------------- POST /rooms
\* Names in the bodies of POST /rooms: a new name, the same with a blank
\* before it, a name that exists, a blank one and one outside the grammar.
RoomPostInputs ==
  {<<"c">>, <<" ", "c">>, <<"a">>, <<" ">>, <<"c", "!">>}

\* The validation chain of POST /rooms and validate: TRUE when the request
\* is answered 400.
RoomPostInvalid(name) == ~MatchesGrammar(Trim(name))

\* res.status(code).json({ message, room: { name } })
RoomResponse(code, message, name) ==
  Response(code, message, [NoMessage EXCEPT !.room = name])

\* An insert into a collection without the unique index on name.
InsertRoomNoIndex(store, doc) == store \cup {doc}

\* room.save() of a new document under the unique index on name: the
\* insert fails with a duplicate key error, and the collection stays as it
\* is, when a document has the name.
InsertRoom(store, doc) ==
  IF \E room \in store : room.name = doc.name THEN store ELSE store \cup {doc}

\* POST /rooms up to the await of Room.findOne: the validation chain,
\* validate and authMiddleware. member records whether a room of the name
\* existed when the request arrived.
PostRooms(token, name) ==
  LET req == ReqId("postRooms", issued["postRooms"] + 1)
  IN
  /\ issued["postRooms"] < budget["postRooms"]
  /\ issued' = [issued EXCEPT !["postRooms"] = @ + 1]
  /\ IF RoomPostInvalid(name)
       THEN /\ response' = RoomResponse(400, "Validation failed", <<>>)
            /\ tasks' = tasks
       ELSE IF BearerError(token) # ""
         THEN /\ response' = RoomResponse(401, BearerError(token), <<>>)
              /\ tasks' = tasks
         ELSE /\ response' = NoResponse
              /\ tasks' = tasks \cup
                   {[id |-> req, sock |-> <<>>, op |-> "postRooms", pc |-> "findRoom",
                     room |-> Trim(name), text |-> <<>>, ts |-> 0, username |-> "",
                     member |-> RoomExists(Trim(name)),
                     payload |-> [username |-> NoName, ts |-> NoTs],
                     limit |-> 0, skip |-> 0, result |-> <<>>]}
  /\ emitted' = Quiet
  /\ UNCHANGED <<status, session, rooms, roomStore, messages, now, budget>>

\* POST /rooms from the answer of Room.findOne to the await of room.save():
\* 409 when a room has the name; next(error) and the 500 of the error
\* handler when the query fails.
PostRoomsFound(t, ok) ==
  /\ t \in tasks /\ t.op = "postRooms" /\ t.pc = "findRoom"
  /\ IF ~ok
       THEN /\ response' = RoomResponse(500, "Internal Server Error", <<>>)
            /\ tasks' = tasks \ {t}
       ELSE IF RoomExists(t.room)
         THEN /\ response' = RoomResponse(409, "Room name already exists", <<>>)
              /\ tasks' = tasks \ {t}
         ELSE /\ response' = NoResponse
              /\ tasks' = (tasks \ {t}) \cup {[t EXCEPT !.pc = "saveRoom"]}
  /\ emitted' = Quiet
  /\ UNCHANGED <<status, session, rooms, roomStore, messages, now, issued, budget>>

\* POST /rooms from the answer of room.save() to the end: 201 with the name
\* of the room, or next(error) and the 500 of the error handler when the
\* save fails, as it does when the name has been taken since the lookup.
PostRoomsSaved(t, ok) ==
  LET store == IF ok THEN InsertRoom(roomStore, RoomDocument(t.id, t.room))
                     ELSE roomStore
  IN
  /\ t \in tasks /\ t.op = "postRooms" /\ t.pc = "saveRoom"
  /\ tasks' = tasks \ {t}
  /\ roomStore' = store
  /\ response' = IF store # roomStore
                   THEN RoomResponse(201, "Room created successfully", t.room)
                   ELSE RoomResponse(500, "Internal Server Error", <<>>)
  /\ emitted' = Quiet
  /\ UNCHANGED <<status, session, rooms, messages, now, issued, budget>>

RoomPosting ==
  \/ \E token \in BearerInputs, name \in RoomPostInputs :
       PostRooms(token, name) /\ UNCHANGED page
  \/ \E t \in tasks, ok \in BOOLEAN : PostRoomsFound(t, ok) /\ UNCHANGED page
  \/ \E t \in tasks, ok \in BOOLEAN : PostRoomsSaved(t, ok) /\ UNCHANGED page

\* The Room collection holds rooms "a" and "b"; POST /rooms requests follow.
InitRooms ==
  /\ status = [s \in Sockets |-> "none"]
  /\ session = [s \in Sockets |-> NoSession]
  /\ response = NoResponse
  /\ rooms = [s \in Sockets |-> {}]
  /\ roomStore = Rooms(ExistingRooms)
  /\ messages = <<>>
  /\ now = 0
  /\ tasks = {}
  /\ issued = [op \in Requests |-> 0]
  /\ budget = [joinRoom |-> 0, chatMessage |-> 0, postMessages |-> 0,
               getMessages |-> 0, postRooms |-> MaxRoomPosts]
  /\ emitted = Quiet
  /\ page = NoPage

NextRooms == RoomPosting

SpecRooms == InitRooms /\ [][NextRooms]_vars

\* ---------------------------------------------------------- the Chat page
\* socket.emit(type, room) of the client.
ClientEvent(type, room) == [type |-> type, room |-> room]

\* The effect on [currentRoom, socket, connected].
RoomEffect(p) ==
  IF p.socket # "none" /\ p.connected /\ p.currentRoom # <<>>
    THEN [p EXCEPT !.out = @ \o <<ClientEvent("leaveRoom", p.currentRoom),
                                  ClientEvent("joinRoom", p.currentRoom)>>,
                   !.list = <<>>]
    ELSE p

\* setCurrentRoom(name): React leaves the component alone when the state
\* is set to the value it has, and runs the effect of a changed currentRoom
\* after the render otherwise.
SetCurrentRoom(p, name) ==
  IF name = p.currentRoom THEN p ELSE RoomEffect([p EXCEPT !.currentRoom = name])

\* onRoomChange={setCurrentRoom}, with the call recorded.
OnRoomChange(p, name) ==
  [SetCurrentRoom(p, name) EXCEPT !.called = Append(@, name)]

\* A click handler that calls back for every room.
HandleRoomSelectAlways(p, roomName) == OnRoomChange(p, roomName)

\* handleRoomSelect of RoomSelector.
HandleRoomSelect(p, roomName) ==
  IF roomName # p.currentRoom THEN OnRoomChange(p, roomName) ELSE p

\* newSocket.on('connect'): the emit of the handler, which knows the
\* currentRoom of the first render, then the effect that the change of
\* connected brings.
OnConnect(p) ==
  RoomEffect([p EXCEPT !.connected = TRUE, !.error = "",
                       !.out = Append(@, ClientEvent("joinRoom", p.handlerRoom))])

\* newSocket.on('disconnect')
OnDisconnect(p) == [p EXCEPT !.connected = FALSE]

\* errorMessage.includes('Authentication') || errorMessage.includes('token'),
\* over the messages a connect_error can carry.
MentionsAuthentication(message) ==
  message \in {"Authentication error: No token provided",
               "Authentication error: Invalid token",
               "Authentication error: Token expired",
               "Authentication error: lookup failed",
               "Authentication error: User not found"}

\* newSocket.on('connect_error')
OnConnectError(p, message) ==
  IF MentionsAuthentication(message)
    THEN [p EXCEPT !.token = NoToken, !.timer = TRUE, !.connected = FALSE,
                   !.error = "Session expired. Please login again."]
    ELSE [p EXCEPT !.connected = FALSE,
                   !.error = "Failed to connect to server. Please check your connection."]

\* newSocket.on('roomHistory')
OnRoomHistory(p, data) ==
  IF data.room = p.handlerRoom THEN [p EXCEPT !.list = data.history] ELSE p

\* newSocket.on('message')
OnMessage(p, message) ==
  IF message.room = p.handlerRoom THEN [p EXCEPT !.list = Append(@, message.msg)] ELSE p

\* newSocket.on('error')
OnError(p, errorData) == [p EXCEPT !.error = errorData.message]

\* The handler of the page for an event of its socket; userJoined has none.
Handle(p, e) ==
  CASE e.type = "connect" -> OnConnect(p)
    [] e.type = "connect_error" -> OnConnectError(p, e.message)
    [] e.type = "roomHistory" -> OnRoomHistory(p, e)
    [] e.type = "message" -> OnMessage(p, e)
    [] e.type = "error" -> OnError(p, e)
    [] OTHER -> p

\* The events of a server step that reach the socket of the page.
Deliver(p, em) ==
  IF p.socket \in {"opening", "open"}
    THEN [p EXCEPT !.inbox = @ \o SelectSeq(em[NewSocket], LAMBDA e : e.live)]
    ELSE p

\* The cleanup of the socket effect when Chat is unmounted.
UnmountChat(p) ==
  IF p.mounted
    THEN [p EXCEPT !.mounted = FALSE, !.connected = FALSE, !.inbox = <<>>,
                   !.socket = IF @ # "none" THEN "closed" ELSE @]
    ELSE p

\* A socket effect without the check of the token: createSocket() throws
\* without one and the catch shows its message.
MountChatUnchecked(p, fetched) ==
  IF ~p.token.present
    THEN [p EXCEPT !.mounted = TRUE, !.path = "/chat",
                   !.error = "No authentication token found. Please login first."]
    ELSE [p EXCEPT !.mounted = TRUE, !.path = "/chat", !.socket = "opening",
                   !.currentRoom = General, !.handlerRoom = General,
                   !.roomList = fetched]

\* The first render of Chat and its effects: without a token navigate('/'),
\* and nothing of the view is rendered; with one, the socket is created and
\* its handlers registered, and RoomSelector fetches the rooms.
MountChat(p, fetched) ==
  IF ~p.token.present
    THEN [p EXCEPT !.mounted = FALSE, !.path = "/"]
    ELSE [p EXCEPT !.mounted = TRUE, !.path = "/chat", !.socket = "opening",
                   !.currentRoom = General, !.handlerRoom = General,
                   !.roomList = fetched]

\* The routes of App: ProtectedRoute around Chat, PublicRoute around Login.
Route(p, url) ==
  IF url = "/chat"
    THEN IF p.token.present THEN "/chat" ELSE "/"
    ELSE IF p.token.present THEN "/chat" ELSE "/"

\* navigate(url) and the render that follows.
Navigate(p, url, fetched) ==
  IF Route(p, url) = "/chat"
    THEN IF p.mounted THEN p ELSE MountChat(p, fetched)
    ELSE [UnmountChat(p) EXCEPT !.path = "/"]

\* The answers of POST /auth/login as handleSubmit sees them: the parsed
\* body, or an exception of fetch.
LoginResponses ==
  {[thrown |-> FALSE, success |-> TRUE, token |-> Token("u1", TRUE, FALSE),
    message |-> "Login successful"],
   [thrown |-> FALSE, success |-> TRUE, token |-> NoToken, message |-> ""],
   [thrown |-> FALSE, success |-> FALSE, token |-> Token("u1", TRUE, FALSE),
    message |-> ""],
   [thrown |-> FALSE, success |-> FALSE, token |-> NoToken,
    message |-> "Invalid username or password"],
   [thrown |-> TRUE, success |-> FALSE, token |-> NoToken,
    message |-> "Failed to fetch"]}

\* A handler that stores whatever token the answer holds.
HandleSubmitAnyToken(p, resp, fetched) ==
  IF ~resp.thrown /\ resp.token.present
    THEN Navigate([p EXCEPT !.token = resp.token, !.loginError = ""], "/chat", fetched)
    ELSE [p EXCEPT !.loginError = "Login failed"]

\* handleSubmit of Login from the answer of post('/auth/login').
HandleSubmit(p, resp, fetched) ==
  IF resp.thrown
    THEN [p EXCEPT !.loginError =
            IF resp.message # "" THEN resp.message ELSE "Failed to connect to server"]
    ELSE IF resp.success /\ resp.token.present
      THEN Navigate([p EXCEPT !.token = resp.token, !.loginError = ""], "/chat", fetched)
      ELSE [p EXCEPT !.loginError =
              IF resp.message # "" THEN resp.message ELSE "Login failed"]

\* handleLogout of Chat; the socket tells its own disconnect handler.
HandleLogout(p, fetched) ==
  Navigate([OnDisconnect(p) EXCEPT !.token = NoToken,
                                   !.socket = IF @ # "none" THEN "closed" ELSE @],
           "/", fetched)

\* handleCreateRoom from the answer of post('/rooms'): on success the list
\* is fetched again and onRoomChange called with the name of the answer.
RoomAnswered(p, resp, fetched) ==
  IF resp = NoResponse THEN p
  ELSE IF resp.code = 201 /\ p.mounted
    THEN OnRoomChange([p EXCEPT !.creating = <<>>, !.roomList = fetched], resp.data.room)
    ELSE [p EXCEPT !.creating = <<>>]

\* The view of Chat is rendered.
ChatView(p) == p.mounted /\ p.token.present

\* What localStorage may hold when the app is opened.
StoredTokens == {NoToken, Token("u1", TRUE, FALSE), Token("u1", TRUE, TRUE)}

\* The names typed into the form of RoomSelector.
FormInputs == {General, <<" ", "c">>, <<" ">>, <<"a">>}

\* get('/rooms') of fetchRooms with the token of the page: the names of the
\* answer, none when the request is refused.
FetchRooms(token, store) ==
  IF BearerError(token) = "" THEN {room.name : room \in store} ELSE {}

\* The page at the start of a step: no call of onRoomChange yet.
Fresh == [page EXCEPT !.called = <<>>]

\* The same with one more action of the user.
Acted == [Fresh EXCEPT !.acts = @ + 1]

\* A step of the browser alone.
ServerIdle ==
  /\ emitted' = Quiet
  /\ response' = NoResponse
  /\ UNCHANGED <<status, session, rooms, roomStore, messages, now, tasks, issued, budget>>

\* The user opens the app at a URL.
Open(url, stored) ==
  /\ page.path = "" /\ ~page.mounted /\ page.acts < MaxActs
  /\ page' = Navigate([Acted EXCEPT !.token = stored], url,
                      FetchRooms(stored, roomStore))
  /\ ServerIdle

\* Chat rendered on its own, outside the routes of App.
RenderChat(stored) ==
  /\ page.path = "" /\ ~page.mounted /\ page.acts < MaxActs
  /\ page' = MountChat([Acted EXCEPT !.token = stored],
                       FetchRooms(stored, roomStore))
  /\ ServerIdle

\* The user submits the login form and the answer arrives.
SubmitLogin(resp) ==
  /\ page.path = "/" /\ page.socket = "none" /\ page.acts < MaxActs
  /\ page' = HandleSubmit(Acted, resp, FetchRooms(resp.token, roomStore))
  /\ ServerIdle

\* The user clicks a room of the list.
SelectRoom(name) ==
  /\ ChatView(page) /\ page.acts < MaxActs
  /\ name \in page.roomList
  /\ page' = HandleRoomSelect(Acted, name)
  /\ ServerIdle

\* The user submits the form of RoomSelector: nothing for a blank name,
\* POST /rooms with the trimmed name otherwise.
CreateRoom(name) ==
  /\ ChatView(page) /\ page.acts < MaxActs /\ page.creating = <<>>
  /\ IF Trim(name) = <<>>
       THEN page' = Acted /\ ServerIdle
       ELSE /\ PostRooms(page.token, Trim(name))
            /\ page' = RoomAnswered([Acted EXCEPT !.creating = Trim(name)], response',
                                    FetchRooms(page.token, roomStore'))

\* The steps of POST /rooms after its first, with the answer handled.
RoomCreation ==
  \/ \E t \in tasks, ok \in BOOLEAN :
       /\ PostRoomsFound(t, ok)
       /\ page' = RoomAnswered(Fresh, response', FetchRooms(page.token, roomStore'))
  \/ \E t \in tasks, ok \in BOOLEAN :
       /\ PostRoomsSaved(t, ok)
       /\ page' = RoomAnswered(Fresh, response', FetchRooms(page.token, roomStore'))

\* The user clicks Logout.
Logout ==
  /\ ChatView(page) /\ page.acts < MaxActs
  /\ page' = HandleLogout(Acted, {})
  /\ ServerIdle

\* The timer of the connect_error handler fires: navigate('/').
TimerFires ==
  /\ page.timer
  /\ page' = Navigate([Fresh EXCEPT !.timer = FALSE], "/",
                      FetchRooms(page.token, roomStore))
  /\ ServerIdle

\* The handshake of the socket of the page reaches the server, which
\* accepts or refuses it.
PageConnect(answered) ==
  /\ page.socket = "opening"
  /\ Connect(NewSocket, page.token, answered)
  /\ page' =
       IF status'[NewSocket] = "connected"
         THEN [Fresh EXCEPT !.socket = "open", !.inbox =
                 Append(@, Event("connect", ReqId("connection", 1), <<>>))]
         ELSE [Deliver(Fresh, emitted') EXCEPT !.socket = "refused"]

\* The handshake fails on the way, once.
ConnectFails ==
  /\ page.socket = "opening"
  /\ page.error = "" /\ page.inbox = <<>>
  /\ page' = [Fresh EXCEPT !.inbox =
                <<[Event("connect_error", ReqId("connection", 1), <<>>)
                     EXCEPT !.message = "xhr poll error"]>>]
  /\ ServerIdle

\* The page handles the next event of its socket.
PageReceive ==
  /\ page.mounted /\ page.inbox # <<>>
  /\ page' = Handle([Fresh EXCEPT !.inbox = Tail(@)], Head(page.inbox))
  /\ ServerIdle

\* The server receives the next event the page emitted.
Serve(db) ==
  /\ page.out # <<>>
  /\ LET e == Head(page.out) IN
       IF e.type = "joinRoom"
         THEN JoinRoom(NewSocket, Str(e.room), db)
         ELSE LeaveRoom(NewSocket, Str(e.room))
  /\ page' = Deliver([Fresh EXCEPT !.out = Tail(@)], emitted')

\* The server learns that the page closed its socket, after everything the
\* socket had sent.
PageClosed ==
  /\ page.socket = "closed" /\ page.out = <<>>
  /\ Disconnect(NewSocket)
  /\ page' = Fresh

\* The handlers of joinRoom resume, and what they emit travels to the page.
JoinServed ==
  \/ \E t \in tasks, outcome \in {"found", "dbError"} :
       JoinRoomLookup(t, outcome) /\ page' = Deliver(Fresh, emitted')
  \/ \E t \in {u \in tasks : u.pc = "findMessages"}, ok \in BOOLEAN :
       \E history \in IF ok THEN RoomHistory(messages, t.room) ELSE {<<>>} :
         JoinRoomHistory(t, ok, history) /\ page' = Deliver(Fresh, emitted')

\* What the user does.
UserActs ==
  \/ \E url \in {"/", "/chat"}, stored \in StoredTokens : Open(url, stored)
  \/ \E stored \in StoredTokens : RenderChat(stored)
  \/ \E resp \in LoginResponses : SubmitLogin(resp)
  \/ \E name \in page.roomList : SelectRoom(name)
  \/ \E name \in FormInputs : CreateRoom(name)
  \/ Logout

\* What the browser and the network do.
PageRuns ==
  \/ TimerFires
  \/ \E answered \in BOOLEAN : PageConnect(answered)
  \/ ConnectFails
  \/ PageReceive
  \/ \E db \in {"ready", "lost"} : Serve(db)
  \/ PageClosed

\* The browser of alice before the app is opened, and a server that knows
\* the rooms "a" and "b".
InitPage ==
  /\ status = [s \in Sockets |-> "none"]
  /\ session = [s \in Sockets |-> NoSession]
  /\ response = NoResponse
  /\ rooms = [s \in Sockets |-> {}]
  /\ roomStore = Rooms(ExistingRooms)
  /\ messages = <<>>
  /\ now = 0
  /\ tasks = {}
  /\ issued = [op \in Requests |-> 0]
  /\ budget = [joinRoom |-> MaxPageJoins, chatMessage |-> 0, postMessages |-> 0,
               getMessages |-> 0, postRooms |-> MaxActs]
  /\ emitted = Quiet
  /\ page = NoPage

NextPage == UserActs \/ PageRuns \/ RoomCreation \/ JoinServed

SpecPage == InitPage /\ [][NextPage]_vars

\* ------------------------------------------- the page and another sender
\* The socket of bob, who is connected from the start.
Bob == <<"2">>

\* MongoDB runs Message.find of a joinRoom: the documents are read now and
\* the answer travels back to the handler.
HistoryRead(t, history) ==
  /\ t \in tasks /\ t.op = "joinRoom" /\ t.pc = "findMessages"
  /\ history \in RoomHistory(messages, t.room)
  /\ tasks' = (tasks \ {t}) \cup {[t EXCEPT !.pc = "gotMessages", !.result = history]}
  /\ emitted' = Quiet
  /\ response' = NoResponse
  /\ UNCHANGED <<session, status, rooms, roomStore, messages, now, issued, budget>>

\* joinRoom resumes with the answer of Message.find: roomHistory to the
\* socket, userJoined to the other sockets of the room.
JoinRoomResumed(t) ==
  /\ t \in tasks /\ t.op = "joinRoom" /\ t.pc = "gotMessages"
  /\ tasks' = tasks \ {t}
  /\ emitted' =
       Broadcast(
         Emit(Quiet, t.sock,
              [Event("roomHistory", t.id, t.room) EXCEPT !.history = t.result]),
         UserJoinedTargets(t),
         [Event("userJoined", t.id, t.room)
            EXCEPT !.username = session[t.sock].username])
  /\ response' = NoResponse
  /\ UNCHANGED <<session, status, rooms, roomStore, messages, now, issued, budget>>

\* MongoDB runs the insert of message.save(): the document is in the
\* collection now and the answer travels back to the handler.
MessageCommitted(t) ==
  /\ t \in tasks /\ t.op = "chatMessage" /\ t.pc = "save"
  /\ tasks' = (tasks \ {t}) \cup {[t EXCEPT !.pc = "saved"]}
  /\ messages' = Save(messages, TaskMessage(t))
  /\ emitted' = Quiet
  /\ response' = NoResponse
  /\ UNCHANGED <<session, status, rooms, roomStore, now, issued, budget>>

\* chatMessage resumes after message.save(): the broadcast.
ChatMessageResumed(t) ==
  /\ t \in tasks /\ t.op = "chatMessage" /\ t.pc = "saved"
  /\ tasks' = tasks \ {t}
  /\ emitted' = Broadcast(Quiet, MessageTargets(t),
       [Event("message", t.id, t.room) EXCEPT
          !.username = t.username, !.msg = TaskMessage(t)])
  /\ response' = NoResponse
  /\ UNCHANGED <<session, status, rooms, roomStore, messages, now, issued, budget>>

\* What bob sends: a message to 'general' or to "b".
BobInputs ==
  {[present |-> TRUE, room |-> Str(r), text |-> Str(<<"h", "i">>),
    extra |-> [username |-> NoName, ts |-> NoTs]] : r \in {General, <<"b">>}}

\* The joinRoom and leaveRoom of the page on the server.
PageServed ==
  \/ Serve("ready")
  \/ \E t \in tasks : JoinRoomLookup(t, "found") /\ page' = Deliver(Fresh, emitted')
  \/ \E t \in tasks : \E history \in RoomHistory(messages, t.room) :
       HistoryRead(t, history) /\ page' = Fresh
  \/ \E t \in tasks : JoinRoomResumed(t) /\ page' = Deliver(Fresh, emitted')

\* The chatMessage of bob on the server.
BobSends ==
  \/ \E data \in BobInputs, date \in 0..MaxClock :
       ChatMessage(Bob, data, date) /\ page' = Deliver(Fresh, emitted')
  \/ \E t \in tasks : MessageCommitted(t) /\ page' = Fresh
  \/ \E t \in tasks : ChatMessageResumed(t) /\ page' = Deliver(Fresh, emitted')

\* The rooms 'general' and "b" exist, each with an old message; bob is
\* connected and in both; alice has just opened /chat with a valid token.
InitChat ==
  /\ status = [s \in Sockets |-> IF s = Bob THEN "connected" ELSE "none"]
  /\ session = [s \in Sockets |->
       IF s = Bob THEN Identity(CHOOSE u \in Users : u.username = "bob") ELSE NoSession]
  /\ response = NoResponse
  /\ rooms = [s \in Sockets |-> IF s = Bob THEN {Bob, General, <<"b">>} ELSE {}]
  /\ roomStore = Rooms({General, <<"b">>})
  /\ messages = <<Stored(1, General, 0 - 2), Stored(2, <<"b">>, 0 - 1)>>
  /\ now = 0
  /\ tasks = {}
  /\ issued = [op \in Requests |-> 0]
  /\ budget = [joinRoom |-> MaxPageJoins, chatMessage |-> MaxChats, postMessages |-> 0,
               getMessages |-> 0, postRooms |-> 0]
  /\ emitted = Quiet
  /\ page = Navigate([NoPage EXCEPT !.token = Token("u1", TRUE, FALSE), !.acts = 1],
                     "/chat", {General, <<"b">>})

NextChat ==
  \/ PageConnect(TRUE)
  \/ PageReceive
  \/ \E name \in page.roomList : SelectRoom(name)
  \/ PageServed
  \/ BobSends

SpecChat == InitChat /\ [][NextChat]_vars

\* ----------------------------------------------------------------- claims
Range(f) == {f[i] : i \in DOMAIN f}

\* The events the last step sent to socket s.
Events(s) == Range(emitted[s])

\* The rooms socket s entered by joinRoom: all of socket.rooms but the room
\* of its own id.
Joined(s) == rooms[s] \ {s}

\* A step of a joinRoom handler that ends its wait for Room.findOne.
LookupDone(t) == t \in tasks /\ t.op = "joinRoom" /\ t.pc = "findRoom" /\ t \notin tasks'

UnknownRoomRejected ==
  [][/\ \A t \in tasks : (LookupDone(t) /\ \A room \in roomStore : room.name # t.room) =>
          /\ rooms' = rooms
          /\ \A u \in tasks' : u.id # t.id
          /\ \E e \in Range(emitted'[t.sock]) : e.type = "error" /\ e.req = t.id
     /\ issued'["joinRoom"] # issued["joinRoom"] => rooms' = rooms]_vars

\* C2 witness: a socket in room "a" has just been refused the unknown room
\* "g" and is still in "a".
RefusedStillJoined ==
  \E s \in Sockets :
    /\ <<"a">> \in rooms[s]
    /\ \E e \in Events(s) : e.type = "error" /\ e.at = "findRoom" /\ e.room = <<"g">>

\* C3: a chatMessage is taken up for saving only when its room is one the
\* connection entered by joinRoom and has not left.
SendRequiresJoin ==
  [][\A u \in tasks' \ tasks :
       u.op = "chatMessage" => u.room \in Joined(u.sock)]_vars

DeliveredToEveryMember ==
  [][messages' # messages =>
       LET m == messages'[Len(messages')] IN
       \A o \in Sockets : (Live(o) /\ m.room \in rooms[o]) =>
         Cardinality({i \in DOMAIN emitted'[o] :
                        emitted'[o][i].type = "message" /\ emitted'[o][i].msg = m}) = 1]_vars

\* C5 witness: the sender and another socket have both been sent the
\* 'message' event of one message.
BothReceived ==
  \E s, o \in Sockets :
    /\ s # o
    /\ \E e \in Events(s) : \E f \in Events(o) :
         e.type = "message" /\ f.type = "message" /\ e.msg = f.msg
           /\ e.username = UserOf(s)

\* C6: a 'message' event goes only to connected sockets that are in its room.
OnlyMembersReceive ==
  \A s \in Sockets : \A e \in Events(s) :
    e.type = "message" => Live(s) /\ e.live /\ e.room \in rooms[s]

\* C6 witness: a message was sent to its room while another connected socket,
\* not in that room, was sent nothing.
OutsiderSkipped ==
  \E s, o \in Sockets :
    /\ \E e \in Events(s) : e.type = "message" /\ e.room \notin rooms[o]
    /\ Live(o) /\ emitted[o] = <<>>

\* C7: a disconnected connection is a member of no room.
DisconnectedHasNoRoom ==
  \A s \in Sockets : status[s] = "disconnected" => rooms[s] = {}

\* The place of message m in history h.
Place(h, m) == CHOOSE k \in DOMAIN h : h[k] = m

\* C8: messages of one room sent by different connections appear in every
\* history read in the order in which their saves completed.
HistoryInSaveOrder ==
  \A r \in ExistingRooms : \A h \in RoomHistory(messages, r) :
    \A i, j \in DOMAIN messages :
      (/\ i < j
       /\ messages[i].room = r /\ messages[j].room = r
       /\ messages[i].username # messages[j].username)
        => Place(h, messages[i]) < Place(h, messages[j])

\* C9: a roomHistory holds at most 50 messages, all of its room and all
\* stored, as many as the room has up to 50, none twice, oldest first in
\* non-decreasing ts order, and no stored message of the room that it leaves
\* out is newer than one it holds.
HistoryIsRecent ==
  \A s \in Sockets : \A e \in Events(s) :
    e.type = "roomHistory" =>
      LET h == e.history
          docs == RoomMessages(messages, e.room)
      IN
      /\ Len(h) <= 50
      /\ Len(h) = IF Len(docs) < 50 THEN Len(docs) ELSE 50
      /\ \A k \in DOMAIN h : h[k].room = e.room /\ h[k] \in Range(docs)
      /\ \A k, l \in DOMAIN h : k < l => h[k] # h[l] /\ h[k].ts <= h[l].ts
      /\ \A m \in Range(docs) \ Range(h) : \A k \in DOMAIN h : m.ts <= h[k].ts

\* C9 witness: a room with more than 50 stored messages has been read and
\* the roomHistory holds 50 of them.
HistoryCut ==
  \E s \in Sockets : \E e \in Events(s) :
    /\ e.type = "roomHistory"
    /\ Len(e.history) = 50
    /\ Len(RoomMessages(messages, e.room)) > 50

\* C10: a history read repeated with nothing stored in between returns the
\* same sequence as the read that has just been answered.
RepeatedReadSame ==
  \A s \in Sockets : \A e \in Events(s) :
    e.type = "roomHistory" =>
      \A h \in RoomHistory(messages, e.room) : h = e.history

\* A chatMessage handler that ends in this step.
ChatDone(t) == t \in tasks /\ t.op = "chatMessage" /\ t \notin tasks'

\* The 'message' events this step sends.
MessageEvents ==
  {e \in UNION {Range(emitted'[s]) : s \in Sockets} : e.type = "message"}

SameButTs(d) == {[d EXCEPT !.extra.ts = ts] : ts \in {NoTs, Given(ClientTs)}}

\* A payload that passes the checks of chatMessage on socket s.
Accepted(s, d) ==
  /\ d.present /\ ~InvalidString(d.room) /\ ~InvalidString(d.text)
  /\ Len(d.text.val) <= MaxTextLength
  /\ ~NotInRoom(s, Trim(d.room.val))

Cause(token) ==
  IF ~token.present THEN "missing"
  ELSE IF ~token.jwt \/ ~token.signed THEN "malformed"
  ELSE IF token.expired THEN "expired"
  ELSE IF \A u \in Users : u.id # token.userId THEN "gone"
  ELSE ""

\* C18: a handshake with a missing, malformed or wrongly signed, expired or
\* orphaned token is refused with an error that no other of these causes
\* gives; the socket is not connected, has no identity, no room and no
\* handler.
RefusedHandshake ==
  [][\A s \in Sockets : \A token \in TokenInputs(s) :
       (Connect(s, token, TRUE) /\ Cause(token) # "") =>
         /\ status'[s] = "none"
         /\ session'[s] = NoSession
         /\ rooms'[s] = {}
         /\ tasks' = tasks
         /\ Len(emitted'[s]) = 1
         /\ emitted'[s][1].type = "connect_error"
         /\ \A other \in TokenInputs(s) :
              Cause(other) \notin {"", Cause(token)} =>
                AuthError(other, TRUE) # emitted'[s][1].message]_vars

\* C18 witness: a handshake with an expired token has been refused.
ExpiredRefused ==
  \E s \in Sockets :
    /\ status[s] = "none"
    /\ session[s] = NoSession
    /\ Len(emitted[s]) = 1
    /\ emitted[s][1].type = "connect_error"
    /\ emitted[s][1].message = "Authentication error: Token expired"

\* C19: a handshake with a well-formed, unexpired token of an existing user
\* connects the socket with the user id of the token and the username of
\* that user.
ValidTokenAccepted ==
  [][\A s \in Sockets : \A token \in TokenInputs(s) :
       (Connect(s, token, TRUE) /\ Cause(token) = "") =>
         /\ status'[s] = "connected"
         /\ session'[s].userId = token.userId
         /\ \E u \in Users :
              u.id = token.userId /\ session'[s].username = u.username]_vars

\* C19 witness: socket 1 is connected as alice.
ConnectedAsAlice ==
  /\ Live(<<"1">>)
  /\ session[<<"1">>] = [userId |-> "u1", username |-> "alice"]

\* C20: a step that sends an error for a joinRoom or chatMessage leaves every
\* connection connected and every membership as it is, and the room of a
\* joinRoom that ends in an error is a room of the connection only if it
\* was one when the request arrived.
ErrorKeepsState ==
  [][(\E s \in Sockets : \E e \in Range(emitted'[s]) : e.type = "error") =>
       /\ status' = status
       /\ rooms' = rooms
       /\ \A t \in tasks \ tasks' :
            (t.op = "joinRoom" /\ t.room \in rooms[t.sock]) => t.member]_vars

\* C12: every message stored is, in the step that stores it, sent as a
\* 'message' event with the same id, room, author, text and timestamp to the
\* connected sockets of its room, and every 'message' event sent is the
\* message stored in that step.
StoredIsBroadcast ==
  [][/\ messages' # messages =>
          \A s \in Sockets :
            (Live(s) /\ messages'[Len(messages')].room \in rooms[s]) =>
              \E e \in Range(emitted'[s]) :
                e.type = "message" /\ e.msg = messages'[Len(messages')]
     /\ \A e \in MessageEvents :
          /\ messages' # messages
          /\ e.msg = messages'[Len(messages')]
          /\ e.room = e.msg.room /\ e.username = e.msg.username]_vars

\* C13: the room of every stored message is a room of the Room collection.
MessagesInExistingRooms ==
  \A i \in DOMAIN messages : \E room \in roomStore : room.name = messages[i].room

\* C16: a chatMessage of a member with a string as text is accepted exactly
\* when the trimmed text has 1 to 1000 characters, and the text of the
\* document is the trimmed text.
TextBound ==
  [][\A s \in Sockets : \A d \in LongChatInputs : \A date \in 0..MaxClock :
       (ChatMessage(s, d, date) /\ ~NotInRoom(s, Trim(d.room.val))) =>
         /\ tasks' # tasks <=>
              (Len(Trim(d.text.val)) >= 1 /\ Len(Trim(d.text.val)) <= 1000)
         /\ \A u \in tasks' \ tasks : u.text = Trim(d.text.val)]_vars

\* C17: no joinRoom reaches the query of the Room collection with a name
\* outside the grammar of room names, and a joinRoom with such a name ends
\* in an error without a change of membership.
GrammarChecked ==
  [][/\ \A u \in tasks' \ tasks :
          (u.op = "joinRoom" /\ u.pc = "findRoom") => MatchesGrammar(u.room)
     /\ \A s \in Sockets : \A room \in GrammarInputs :
          (JoinRoom(s, room, "ready") /\ ~MatchesGrammar(Trim(room.val))) =>
            /\ rooms' = rooms
            /\ \E e \in Range(emitted'[s]) : e.type = "error"]_vars

\* C11: a roomHistory holds every message of its room that a chatMessage
\* saved, unless 50 or more messages of the room were saved after it.
SavedIsInHistory ==
  \A s \in Sockets : \A e \in Events(s) :
    e.type = "roomHistory" =>
      \A i \in DOMAIN messages :
        (/\ messages[i].room = e.room
         /\ messages[i].id[1] = "chatMessage"
         /\ Cardinality({j \in DOMAIN messages :
                           j > i /\ messages[j].room = e.room}) < 50)
          => messages[i] \in Range(e.history)

\* The events of a type among those this step sends to socket s.
Sent(s, type) == SelectSeq(emitted'[s], LAMBDA e : e.type = type)

\* This step sends one error to socket s and nothing else to anyone.
OneErrorTo(s) ==
  /\ Len(emitted'[s]) = 1
  /\ emitted'[s][1].type = "error"
  /\ \A o \in Sockets \ {s} : emitted'[o] = <<>>

\* C21: a joinRoom, chatMessage or leaveRoom that is not carried out sends
\* exactly one error, to the socket it came from: a joinRoom or chatMessage
\* refused on arrival, a handler that ends without its roomHistory or its
\* save, and a leaveRoom whose argument names no room.
EveryRefusalReported ==
  [][/\ \A s \in Sockets, db \in {"ready", "reconnected", "lost"} :
          \A room \in JoinInputs :
            (JoinRoom(s, room, db) /\ tasks' = tasks) => OneErrorTo(s)
     /\ \A s \in Sockets, date \in 0..MaxClock : \A d \in ChatInputs(s) :
          (ChatMessage(s, d, date) /\ tasks' = tasks) => OneErrorTo(s)
     /\ \A t \in tasks :
          (/\ t \notin tasks'
           /\ \A u \in tasks' : u.id # t.id
           /\ t.op \in {"joinRoom", "chatMessage"}
           /\ messages' = messages
           /\ Sent(t.sock, "roomHistory") = <<>>) => OneErrorTo(t.sock)
     /\ \A s \in Sockets : \A room \in LeaveInputs :
          (LeaveRoom(s, room) /\ ~(room.str /\ Trim(room.val) # <<>>)) =>
            OneErrorTo(s)]_vars

\* C22: leaveRoom(R) takes R from the rooms of the socket and changes
\* nothing else, nothing at all when the socket is not in R, and a second
\* leaveRoom(R) would change nothing.
LeaveIsIdempotent ==
  [][\A s \in Sockets : \A room \in LeaveInputs :
       LeaveRoom(s, room) =>
         /\ rooms'[s] = IF room.str /\ room.val # <<>>
                          THEN rooms[s] \ {Trim(room.val)} ELSE rooms[s]
         /\ \A o \in Sockets \ {s} : rooms'[o] = rooms[o]
         /\ UNCHANGED <<status, session, roomStore, messages, tasks>>
         /\ emitted' = Quiet
         /\ SocketLeave(rooms', s, Trim(room.val)) = rooms']_vars

\* C22 witness: a connected socket that was in room "a" has left it.
LeftRoom ==
  \E s \in Sockets : Live(s) /\ rooms[s] = {s}

\* C23: the chat rooms of a socket change only in a step of its own
\* disconnect, its own leaveRoom or its own joinRoom handler, and that step
\* changes the rooms of no other socket.
OwnRequestsOnly ==
  [][\A s \in Sockets :
       (rooms'[s] \ {s}) # (rooms[s] \ {s}) =>
         \/ Live(s) /\ status'[s] = "disconnected"
         \/ \E room \in LeaveInputs : LeaveRoom(s, room)
         \/ \E t \in tasks :
              /\ t.sock = s /\ LookupDone(t)
              /\ rooms'[s] = rooms[s] \cup {t.room}]_vars

\* C23 witness: socket 1 is in room "a" only and socket 2 in room "b" only.
EachInOwnRoom ==
  /\ Live(<<"1">>) /\ Live(<<"2">>)
  /\ Joined(<<"1">>) = {<<"a">>}
  /\ Joined(<<"2">>) = {<<"b">>}

\* C24: the step that sends a socket its roomHistory sends exactly one
\* userJoined, with the username of that socket and the room, to every other
\* connected socket of the room, and none to the socket itself or to sockets
\* outside the room.
JoinAnnounced ==
  [][\A t \in tasks :
       (/\ t.op = "joinRoom" /\ t.pc = "findMessages" /\ t \notin tasks'
        /\ Sent(t.sock, "roomHistory") # <<>>) =>
         \A o \in Sockets :
           IF o # t.sock /\ Live(o) /\ t.room \in rooms[o]
             THEN /\ Len(Sent(o, "userJoined")) = 1
                  /\ Sent(o, "userJoined")[1].username = session[t.sock].username
                  /\ Sent(o, "userJoined")[1].room = t.room
             ELSE Sent(o, "userJoined") = <<>>]_vars

\* C24 witness: a socket has been sent its roomHistory and another socket
\* the userJoined that names it.
OtherMemberTold ==
  \E s \in Sockets, o \in Sockets :
    /\ s # o
    /\ \E e \in Events(s) : e.type = "roomHistory" /\ e.live
    /\ \E e \in Events(o) :
         e.type = "userJoined" /\ e.username = session[s].username

\* C25: a joinRoom(R) that a connected socket issued as a member of R, and
\* that finds the socket out of R when its lookup ends (a leaveRoom(R) of the
\* socket came after it), does not put the socket back in R.
OrderedRequests ==
  [][\A t \in tasks :
       (/\ LookupDone(t) /\ t.member
        /\ Live(t.sock) /\ t.room \notin rooms[t.sock]) =>
         t.room \notin rooms'[t.sock]]_vars

\* C26: a chatMessage becomes a pending save only when its socket is in the
\* room at the step that processes it, and only pending saves store
\* messages.
MembershipAtProcessing ==
  [][/\ \A u \in tasks' \ tasks :
          u.op = "chatMessage" => u.room \in rooms[u.sock]
     /\ messages' # messages =>
          \E t \in tasks \ tasks' :
            /\ t.pc = "save"
            /\ messages' = Append(messages, TaskMessage(t))
     /\ MessageEvents # {} => messages' # messages]_vars

\* C26 witness: a socket that has left room "a" has been refused a
\* chatMessage.
RefusedAfterLeave ==
  \E s \in Sockets :
    /\ Live(s) /\ <<"a">> \notin rooms[s]
    /\ \E e \in Events(s) :
         e.type = "error" /\ e.message = "You must join the room first"

\* C27: when the save of a chatMessage ends after its socket disconnected,
\* the message is stored and sent once to every connected socket of the
\* room, the save failing being the only reason for which it is not, and
\* nothing reaches the disconnected socket.
SenderGoneStillDelivered ==
  [][\A t \in tasks :
       (ChatDone(t) /\ ~Live(t.sock)) =>
         /\ \A e \in Range(emitted'[t.sock]) : ~e.live
         /\ messages' # messages =>
              /\ messages' = Append(messages, TaskMessage(t))
              /\ \A o \in Sockets \ {t.sock} :
                   IF Live(o) /\ t.room \in rooms[o]
                     THEN /\ Len(emitted'[o]) = 1
                          /\ emitted'[o][1].type = "message"
                          /\ emitted'[o][1].msg = TaskMessage(t)
                     ELSE emitted'[o] = <<>>
         /\ messages' = messages =>
              \E e \in Range(emitted'[t.sock]) : e.type = "error"]_vars

\* C27 witness: a message of a disconnected socket has just been stored and
\* sent to the other socket.
DeliveredAfterGone ==
  \E s \in Sockets, o \in Sockets :
    /\ status[s] = "disconnected" /\ Live(o)
    /\ \E e \in Events(o) :
         /\ e.type = "message" /\ e.msg.username = session[s].username
         /\ e.msg = messages[Len(messages)]

\* C28: a GET request for the messages of a room whose token is missing,
\* malformed or wrongly signed, expired or of a user that is gone starts no
\* query and is answered 400 or 401 without a message, and only a query that
\* a request started is answered with messages.
ValidBearerOnly ==
  [][/\ \A route \in Routes, q \in GetInputs :
          \A token \in TokenInputs(<<"1">>) :
            (GetMessages(route, token, q) /\ Cause(token) # "") =>
              /\ tasks' = tasks
              /\ response'.code \in {400, 401}
              /\ response'.messages = <<>>
     /\ (response'.code = 200 \/ response'.messages # <<>>) =>
          \E t \in tasks \ tasks' : t.op = "getMessages"]_vars

\* C28 witness: a GET request with an expired token has been answered 401.
ExpiredBearerRefused ==
  /\ issued["getMessages"] = 1
  /\ tasks = {}
  /\ response.code = 401
  /\ response.message = "Token expired"
  /\ response.messages = <<>>

\* The numbers that the query strings of GetInputs denote; "2x" denotes
\* none.
QueryNumbers ==
  {<<<<"2">>, 2>>, <<<<"1", "0", "0">>, 100>>, <<<<"0">>, 0>>,
   <<<<"1", "0", "1">>, 101>>, <<<<"1">>, 1>>, <<<<"-", "1">>, 0 - 1>>}

\* A query parameter is absent or a number from min to max.
InRange(p, min, max) ==
  p.present =>
    \E n \in QueryNumbers : n[1] = p.raw /\ n[2] >= min /\ n[2] <= max

\* The number of a query parameter, d when it is absent.
Wanted(p, d) ==
  IF p.present THEN (CHOOSE n \in QueryNumbers : n[1] = p.raw)[2] ELSE d

\* C29: an authenticated GET request with limit L in 1..100 (50 when absent)
\* and skip S >= 0 (0 when absent) queries with L and S, and any other limit
\* or skip is answered 400 without messages; the answer of a query with L
\* and S holds the messages of the room from the (S+1)-th newest to the
\* (S+L)-th newest, as many as there are, none twice, oldest first.
PageOfHistory ==
  [][/\ \A route \in Routes, q \in GetInputs :
          (/\ GetMessages(route, Token("u1", TRUE, FALSE), q)
           /\ (route = "param" \/ Trim(q.room) # <<>>)) =>
            IF InRange(q.limit, 1, 100) /\ InRange(q.skip, 0, 101)
              THEN \E u \in tasks' \ tasks :
                     /\ u.room = Trim(q.room)
                     /\ u.limit = Wanted(q.limit, 50)
                     /\ u.skip = Wanted(q.skip, 0)
              ELSE /\ tasks' = tasks
                   /\ response'.code = 400
                   /\ response'.messages = <<>>
     /\ \A t \in tasks \ tasks' :
          (t.op = "getMessages" /\ response'.code = 200) =>
            LET h == response'.messages
                docs == Range(RoomMessages(messages, t.room))
                left == Cardinality(docs) - t.skip
            IN
            /\ Len(h) <= t.limit
            /\ Len(h) = IF left < 0 THEN 0
                        ELSE IF left < t.limit THEN left ELSE t.limit
            /\ \A k \in DOMAIN h : h[k] \in docs
            /\ \A k, l \in DOMAIN h : k < l => h[k] # h[l] /\ h[k].ts <= h[l].ts
            /\ \A k \in DOMAIN h :
                 LET rank == t.skip + Len(h) + 1 - k
                 IN /\ Cardinality({m \in docs : m.ts > h[k].ts}) < rank
                    /\ Cardinality({m \in docs : m.ts >= h[k].ts}) >= rank]_vars

\* C29 witness: a GET request with limit 2 and skip 1 has been answered with
\* the third newest and the second newest message of room "a".
SecondPageRead ==
  /\ response.code = 200
  /\ Len(response.messages) = 2
  /\ response.messages[1].ts < response.messages[2].ts
  /\ Cardinality({m \in Range(RoomMessages(messages, <<"a">>)) :
                    m.ts > response.messages[2].ts}) = 1

\* C30: no step removes a stored message or changes its id, room, author,
\* text or timestamp: the store after a step is the store before it, with
\* new messages after the old ones if any.
StoreAppendOnly ==
  [][/\ Len(messages') >= Len(messages)
     /\ SubSeq(messages', 1, Len(messages)) = messages]_vars

\* C30 witness: the collection holds the message it started with, then one
\* saved by a chatMessage and one saved by a POST request.
StoredOnceAndForAll ==
  /\ Len(messages) = 3
  /\ messages[1] = Stored(1, <<"a">>, 0 - 1)
  /\ {messages[2].id[1], messages[3].id[1]} = {"chatMessage", "postMessages"}

\* A POST /rooms handler that ends in this step.
RoomPostDone(t) == t \in tasks /\ t.op = "postRooms" /\ t \notin tasks'

\* C38: no two rooms have the same name; a POST /rooms is answered 201 only
\* in a step that adds a room of its name, which no room had, and no step
\* removes a room, so that one request at most gets 201 for a name; a
\* request that finds a room of its name is answered 409, and a request for a name
\* that a room had when it arrived is answered 409, or 500 when the lookup
\* fails, and adds nothing.
RoomNamesUnique ==
  [][/\ \A d \in roomStore', e \in roomStore' : d.name = e.name => d = e
     /\ roomStore \subseteq roomStore'
     /\ \A t \in tasks :
          RoomPostDone(t) =>
            /\ response'.code = 201 <=> roomStore' # roomStore
            /\ response'.code = 201 =>
                 /\ \A room \in roomStore : room.name # t.room
                 /\ roomStore' = roomStore \cup {RoomDocument(t.id, t.room)}
                 /\ response'.data.room = t.room
            /\ (t.pc = "saveRoom" /\ response'.message # "Internal Server Error") =>
                 response'.code = 201
            /\ (t.pc = "findRoom" /\ \E room \in roomStore : room.name = t.room) =>
                 response'.code \in {409, 500}
            /\ t.member => response'.code \in {409, 500}
            /\ response'.code = 409 => \E room \in roomStore : room.name = t.room]_vars

\* C38 witness: of two requests for the name "c" that both found no such
\* room, one has been answered 201 and the other has just failed at its
\* save; one room "c" exists.
SecondCreateFailed ==
  /\ issued["postRooms"] >= 2
  /\ Cardinality({room \in roomStore : room.name = <<"c">>}) = 1
  /\ \A room \in roomStore : room.id # <<"postRooms", issued["postRooms"]>>
  /\ response.code = 500
  /\ tasks = {}

\* The k-th chatMessage is waiting for its save.
PendingChat(k) == \E t \in tasks : t.id = ReqId("chatMessage", k)

\* This step stores the message of handler t and sends it once to every
\* connected socket of its room, and nothing else to anyone.
StoredAndBroadcast(t) ==
  /\ messages' = Append(messages, TaskMessage(t))
  /\ \A o \in Sockets :
       IF Live(o) /\ t.room \in rooms[o]
         THEN /\ Len(emitted'[o]) = 1
              /\ emitted'[o][1].type = "message"
              /\ emitted'[o][1].msg = TaskMessage(t)
              /\ emitted'[o][1].live
         ELSE emitted'[o] = <<>>

\* This step stores nothing and emits one error, on socket s.
ErrorSent(s) == OneErrorTo(s) /\ messages' = messages

\* C39 as stated: every chatMessage ends, and it ends either with its
\* message stored and broadcast or with one error that its sender receives.
OneOutcomeReceived ==
  /\ [][/\ \A s \in Sockets, date \in 0..MaxClock : \A d \in ChatInputs(s) :
            ChatMessage(s, d, date) =>
              (tasks' # tasks \/ (ErrorSent(s) /\ emitted'[s][1].live))
        /\ \A t \in tasks :
             ChatDone(t) =>
               (StoredAndBroadcast(t) \/ (ErrorSent(t.sock) /\ emitted'[t.sock][1].live))]_vars
  /\ \A k \in 1..MaxSends : PendingChat(k) ~> ~PendingChat(k)

\* C39 amended: every chatMessage ends, provided each save returns or
\* fails, and it ends in exactly one of two ways: its message is stored and
\* broadcast, or nothing is stored and one error is emitted on the socket
\* of the sender, which receives it unless it has disconnected since the
\* request.
OneOutcomeEmitted ==
  /\ [][/\ \A s \in Sockets, date \in 0..MaxClock : \A d \in ChatInputs(s) :
            ChatMessage(s, d, date) =>
              (tasks' # tasks \/ (ErrorSent(s) /\ emitted'[s][1].live))
        /\ \A t \in tasks :
             ChatDone(t) =>
               /\ StoredAndBroadcast(t) \/ ErrorSent(t.sock)
               /\ ErrorSent(t.sock) => (emitted'[t.sock][1].live <=> Live(t.sock))]_vars
  /\ \A k \in 1..MaxSends : PendingChat(k) ~> ~PendingChat(k)

\* C39 witness: every chatMessage of the run has ended, one with its
\* message stored and the last with an error emitted on the socket of a
\* sender that had disconnected.
ErrorToGoneSender ==
  /\ issued["chatMessage"] = MaxSends
  /\ tasks = {}
  /\ Len(messages) = 1
  /\ \E s \in Sockets :
       /\ status[s] = "disconnected"
       /\ Len(emitted[s]) = 1
       /\ emitted[s][1].type = "error" /\ ~emitted[s][1].live

\* C31: a click on a room of the list calls onRoomChange once, with the
\* name of the room, when the room is not currentRoom, and calls nothing
\* when it is.
SelectCallsBackOnChange ==
  [][\A name \in page.roomList :
       SelectRoom(name) =>
         page'.called = IF name # page.currentRoom THEN <<name>> ELSE <<>>]_vars

\* C31 witness: the user has clicked room "a" twice; the second click, on
\* what was then the current room, called nothing.
CurrentRoomClicked ==
  /\ ChatView(page) /\ page.acts = 3
  /\ page.currentRoom = <<"a">> /\ page.called = <<>>
  /\ page.creating = <<>> /\ response = NoResponse
  /\ Len(page.out) + issued["joinRoom"] \in {2, 5}

\* C32: the answer of a login stores its token and leads to /chat exactly
\* when it reports success and holds a token; any other answer, and a
\* request that fails, stores nothing, leaves the Login page in place and
\* shows an error.
LoginStoresTokenOnSuccess ==
  [][\A resp \in LoginResponses :
       SubmitLogin(resp) =>
         IF ~resp.thrown /\ resp.success /\ resp.token.present
           THEN /\ page'.token = resp.token
                /\ page'.path = "/chat" /\ page'.mounted
                /\ page'.loginError = ""
           ELSE /\ page'.token = page.token /\ ~page'.token.present
                /\ page'.path = "/" /\ ~page'.mounted
                /\ page'.loginError # ""]_vars

\* C32 witness: after a login that was refused, a second one has succeeded:
\* the token is stored and Chat is mounted with its socket.
LoggedIn ==
  /\ page.acts = 3 /\ page.path = "/chat" /\ page.mounted
  /\ page.token = Token("u1", TRUE, FALSE)
  /\ page.socket = "opening" /\ page.out = <<>>
  /\ page.creating = <<>> /\ issued["postRooms"] = 0

\* C33: a socket is created only in a step that leaves a token stored, and
\* events are emitted only while one is; Chat rendered without a token
\* navigates to '/' and creates and emits nothing; and Chat is mounted
\* without a token only between a refused handshake, which removed the
\* token, and the redirect that follows, when nothing of its view is
\* rendered.
NoTokenNoSocket ==
  [][/\ (page'.socket # page.socket /\ page'.socket = "opening") =>
          page'.token.present
     /\ Len(page'.out) > Len(page.out) => page.token.present /\ page'.token.present
     /\ (page'.mounted /\ ~page'.token.present) =>
          /\ page'.timer /\ page'.socket = "refused"
          /\ ~ChatView(page')
     /\ \A stored \in StoredTokens :
          (RenderChat(stored) /\ ~stored.present) =>
            /\ page'.path = "/" /\ ~page'.mounted
            /\ page'.socket = "none" /\ page'.out = <<>>]_vars

\* C33 witness: the first thing that happened was a render without a token,
\* which led to '/' with no socket and nothing emitted.
RedirectedToLogin ==
  /\ page.acts = 1 /\ page.path = "/" /\ ~page.token.present
  /\ ~page.mounted /\ page.socket = "none" /\ page.out = <<>>
  /\ page.loginError = ""

\* C40: when POST /rooms of the form is answered 201 while the page is
\* connected, currentRoom becomes the name of the answer and a joinRoom for
\* it is emitted.
CreatedRoomJoined ==
  [][(response'.code = 201 /\ page.mounted /\ page.connected) =>
       /\ page'.currentRoom = response'.data.room
       /\ \E i \in (Len(page.out) + 1)..Len(page'.out) :
            page'.out[i] = ClientEvent("joinRoom", response'.data.room)]_vars

\* C34: a change of currentRoom from A to B while connected emits
\* leaveRoom(A) and then joinRoom(B), and once the server has nothing left
\* to process the socket of the page is in no room but the current one.
SwitchLeavesPrevious ==
  [][/\ (page.mounted /\ page.connected /\ page'.currentRoom # page.currentRoom) =>
          page'.out = page.out \o <<ClientEvent("leaveRoom", page.currentRoom),
                                    ClientEvent("joinRoom", page'.currentRoom)>>
     /\ (page'.connected /\ page'.out = <<>> /\ tasks' = {}) =>
          Joined(NewSocket)' \subseteq {page'.currentRoom}]_vars

\* C35: the page handles a roomHistory of its current room by showing its
\* messages, a message of its current room by appending it, and leaves the
\* list alone for a roomHistory or message of another room.
ListFollowsCurrentRoom ==
  [][(PageReceive /\ Head(page.inbox).type \in {"roomHistory", "message"}) =>
       LET e == Head(page.inbox) IN
       page'.list =
         IF e.room # page.currentRoom THEN page.list
         ELSE IF e.type = "roomHistory" THEN e.history
         ELSE Append(page.list, e.msg)]_vars

\* Nothing is on its way between the page and the server, and the page has
\* stayed in its first room, which its socket has joined.
Settled ==
  /\ tasks = {} /\ page.out = <<>> /\ page.inbox = <<>>
  /\ page.connected /\ page.acts = 1
  /\ page.currentRoom \in rooms[NewSocket]

\* C36: once everything is processed, the page shows every stored message
\* of the room it joined.
MissesNoMessage ==
  Settled =>
    \A i \in DOMAIN messages :
      messages[i].room = page.currentRoom =>
        \E j \in DOMAIN page.list : page.list[j] = messages[i]

\* C37: the list of the page never holds two messages with the same _id.
NoDuplicateInList ==
  \A i \in DOMAIN page.list, j \in DOMAIN page.list :
    page.list[i].id = page.list[j].id => i = j

====
